---- MODULE Spec2Model ----
(***************************************************************************)
(* A model of ftputil's FTPHost (src/ftputil.py) and _FTPFile              *)
(* (src/ftp_file.py): the pool of child sessions behind file(), closing    *)
(* of hosts and remote file streams, and the directory-sensitive commands  *)
(* with their stat-cache invalidation.                                     *)
(*                                                                         *)
(* Every action is one call of a public method by the (single-threaded)    *)
(* caller.  `log` holds the protocol commands and cache invalidations the  *)
(* call issued, in order; `lastOp` holds the call and how it ended.        *)
(***************************************************************************)
EXTENDS Integers, Sequences, FiniteSets, TLC

\* ------------------------------------------------------------------ bounds

\* child hosts (extra sessions) created over the whole run
MaxHosts == 2
\* the same, where the calls on files and directories are what is looked at
MaxFsHosts == 1
\* position of the injected failure among the commands one call issues on
\* the primary session (0: no failure injected)
MaxFuse == 4
\* units of data written to one remote file
MaxSize == 2
\* symbolic links the server follows to resolve one path
MaxHops == 3
\* times the client's clock is seen to have moved on
MaxTicks == 3
\* bytes of the data written to or read from a text stream
MaxLen == 3

\* ------------------------------------------------------------ path algebra
\* A path string is a record: does it start with "/", and its components.
\* "" is Path(FALSE, <<>>); "/" is Path(TRUE, <<>>).

Path(abs, parts) == [abs |-> abs, parts |-> parts]

Root == Path(TRUE, <<>>)

EmptyPath == Path(FALSE, <<>>)

isabs(p) == p.abs

\* posixpath.join for two arguments
join(a, b) ==
    IF isabs(b) THEN b ELSE Path(a.abs, a.parts \o b.parts)

\* posixpath.split: (head, tail); the head of "/f" is "/", the tail of "/" is ""
split(p) ==
    IF p.parts = <<>>
    THEN [head |-> p, tail |-> EmptyPath]
    ELSE [head |-> Path(p.abs, SubSeq(p.parts, 1, Len(p.parts) - 1)),
          tail |-> Path(FALSE, <<p.parts[Len(p.parts)]>>)]

\* posixpath.normpath on the components: "." is dropped, ".." removes the
\* component before it (and is dropped at the root)
RECURSIVE NormParts(_, _, _)
NormParts(abs, todo, done) ==
    IF todo = <<>> THEN done
    ELSE LET c == Head(todo)
             rest == Tail(todo)
         IN  IF c = "." THEN NormParts(abs, rest, done)
             ELSE IF c = ".."
             THEN IF done # <<>> /\ done[Len(done)] # ".."
                  THEN NormParts(abs, rest, SubSeq(done, 1, Len(done) - 1))
                  ELSE IF abs THEN NormParts(abs, rest, done)
                  ELSE NormParts(abs, rest, Append(done, c))
             ELSE NormParts(abs, rest, Append(done, c))

normpath(p) ==
    LET parts == NormParts(p.abs, p.parts, <<>>)
    IN  IF ~p.abs /\ parts = <<>> THEN Path(FALSE, <<".">>) ELSE Path(p.abs, parts)

\* ftp_path.abspath: join with the current directory, then normalize
abspath(cwd, p) == normpath(IF isabs(p) THEN p ELSE join(cwd, p))

\* --------------------------------------------------------- mode strings
\* A mode string is the sequence of its characters.

HasChar(mode, c) == \E i \in 1..Len(mode) : mode[i] = c

ValidModes == {<<"r">>, <<"r", "b">>, <<"w">>, <<"w", "b">>}

\* -------------------------------------------------------------- the server
\* The remote file system: what each absolute path is.

DirD == Path(TRUE, <<"d">>)

FileF == Path(TRUE, <<"f">>)

FileDF == Path(TRUE, <<"d", "f">>)

\* a directory whose name contains a blank, and two names in it
SpaceD == Path(TRUE, <<"a b">>)

SpaceDX == Path(TRUE, <<"a b", "x">>)

SpaceDY == Path(TRUE, <<"a b", "y">>)

\* a name in /d the server lets nobody delete
FileDP == Path(TRUE, <<"d", "p">>)

Protected == {FileDP}

\* names of symbolic links
LinkL == Path(TRUE, <<"l">>)

LinkDL == Path(TRUE, <<"d", "l">>)

\* the helper file of synchronize_times
Helper == Path(FALSE, <<"_ftputil_sync_">>)

\* the helper file in the root directory: the server lets no helper file be
\* made anywhere else
RootHelper == Path(TRUE, <<"_ftputil_sync_">>)

FsPaths ==
    {Root, DirD, FileF, FileDF, FileDP, SpaceD, SpaceDX, SpaceDY, LinkL,
     LinkDL, RootHelper}

\* `" " in path`
HasSpace(p) == \E i \in DOMAIN p.parts : p.parts[i] = "a b"

\* what the server holds at a path: its kind ("none": nothing is there) and,
\* for a file, how much data it holds
\* what the server holds at a path; mtime is the server's local time, in
\* seconds, of the last write
Node(kind, size) ==
    [kind |-> kind, size |-> size, target |-> EmptyPath, mtime |-> 0]

\* a symbolic link and the path written in it
Link(target) == [kind |-> "link", size |-> 0, target |-> target, mtime |-> 0]

NoNode == Node("none", 0)

Kind(fs, p) == IF p \in DOMAIN fs THEN fs[p].kind ELSE "none"

Size(fs, p) == IF p \in DOMAIN fs THEN fs[p].size ELSE 0

\* names in directory p
Entries(fs, p) ==
    {q \in DOMAIN fs : q # Root /\ fs[q].kind # "none" /\ split(q).head = p}

\* The entry the server reaches for the absolute path p, following the
\* symbolic links on the way: EmptyPath when there are too many.
RECURSIVE Resolve(_, _, _)

\* q is an entry reached; a link's target is taken from the link's directory
ResolveLink(fs, q, hops) ==
    IF Kind(fs, q) # "link" THEN q
    ELSE IF hops = 0 THEN EmptyPath
    ELSE Resolve(fs, normpath(join(split(q).head, fs[q].target)), hops - 1)

ResolveIn(fs, parent, name, hops) ==
    IF parent = EmptyPath THEN EmptyPath
    ELSE ResolveLink(fs, join(parent, name), hops)

Resolve(fs, p, hops) ==
    IF p.parts = <<>> THEN p
    ELSE ResolveIn(fs, Resolve(fs, split(p).head, hops), split(p).tail, hops)

\* the directory the server enters for CWD p: p itself unless links lead to
\* the directory
Enter(fs, p) == IF Kind(fs, p) = "dir" THEN p ELSE Resolve(fs, p, MaxHops)

\* ------------------------------------------------------------ stat cache

\* invalidate(path): remove the entry of the absolute normalized path
CacheInvalidate(c, p) ==
    LET k == normpath(p)
    IN  [q \in DOMAIN c \ {k} |-> c[q]]

\* clear()
CacheClear == [q \in {} |-> NoNode]

\* ----------------------------------------------------------------- events

Ev(sess, cmd, arg) == [sess |-> sess, cmd |-> cmd, arg |-> arg]

\* the primary session is session 0, child host h owns session h
InvalidateEv(p) == Ev(0, "invalidate", p)

\* ------------------------------------------------------------------ state

VARIABLES
    closed,       \* FTPHost.closed of the host the caller made
    session,      \* its primary session: "open" or "closed"
    current_dir,  \* FTPHost._current_dir
    pwd,          \* the working directory of the primary session on the server
    stat_cache,   \* FTPHost.stat_cache: absolute path -> kind
    children,     \* FTPHost._children: the pool, a sequence of child ids
    hosts,        \* every child host made so far (a stream keeps its child)
    fs,           \* the server's file system
    deleted,      \* the host object has been finalized (__del__)
    overlapped,   \* since the pool was last emptied, file() has been called
                  \* while a stream of the pool was open
    gone,         \* the paths an rmdir or remove that returned has removed
                  \* and that nothing has created since
    log,          \* what the last call issued, in order
    lastOp,       \* the last call and its outcome
    returned,     \* the value the last call returned
    time_shift,   \* FTPHost._time_shift, in seconds
    now,          \* the client's clock, time.time(), in seconds
    server,       \* the server's clock and listings: [skew, precision]
    local,        \* the caller's local file: [exists, mtime]
    stream        \* a text stream and its caller: [text, fo, got, rounds]

vars == <<closed, session, current_dir, pwd, stat_cache, children, hosts, fs,
          deleted, overlapped, gone, log, lastOp, returned, time_shift, now,
          server, local, stream>>

\* what only the calls that deal with times, local files and the data of
\* a stream change
timeVars == <<time_shift, now, server, local, stream>>

\* a server whose clock is `skew` seconds ahead of the client's and whose
\* listings show times to `precision` seconds
Server(skew, precision) == [skew |-> skew, precision |-> precision]

\* the server's local time
ServerNow == now + server.skew

\* the server's stamp on a file written now
Stamp(node) == [node EXCEPT !.mtime = ServerNow]

\* a record as a listing shows it: the time cut to the listing's precision
Listed(node) ==
    [node EXCEPT !.mtime = (@ \div server.precision) * server.precision]

\* the local file; `open` counts the file objects opened on it and not
\* closed
LocalFile(exists, mtime) == [exists |-> exists, mtime |-> mtime, open |-> 0]

\* A child host: FTPHost made by _copy, with its _FTPFile.
\*   closed       FTPHost.closed of the child
\*   sess         its session
\*   file_closed  _FTPFile.closed of host._file
\*   cwd          the child's _current_dir
\*   served       the stream has been opened at least once
\*   inflight     transfers begun on the session and not yet completed
\*   stor         the remote file the stream's data connection (_conn, _fo)
\*                stores into, EmptyPath when there is none
NewChild ==
    [closed |-> FALSE, sess |-> "open", file_closed |-> TRUE, cwd |-> Root,
     served |-> FALSE, inflight |-> 0, stor |-> EmptyPath]

\* what a call without a result returns (None), and what is left of the
\* result of a call that raised
NoValue == "None"

\* `gone` after a call that removed the paths `removed` and left the server
\* holding fsNext
Gone(removed, fsNext) == {p \in gone \cup removed : Kind(fsNext, p) = "none"}

Op(op, exc, path, mode, child, spawned, fail) ==
    [op |-> op, exc |-> exc, path |-> path, mode |-> mode, child |-> child,
     spawned |-> spawned, fail |-> fail]

\* the host after FTPHost.__init__ at the time `clock`, on the server srv
\* that holds the tree t
\* A text stream and its caller.
\*   text    the data the caller writes
\*   fo      the bytes in _FTPFile._fo: sent and not yet read
\*   got     what the calls of read have returned, one after the other
\*   rounds  the calls of _fo.read the last read made
Stream(text, fo, got, rounds) ==
    [text |-> text, fo |-> fo, got |-> got, rounds |-> rounds]

InitAll(t, srv, clock, st) ==
    /\ stream = st
    /\ closed = FALSE
    /\ session = "open"
    /\ current_dir = Root
    /\ pwd = Root
    /\ stat_cache = CacheClear
    /\ children = <<>>
    /\ hosts = <<>>
    /\ fs = t
    /\ deleted = FALSE
    /\ overlapped = FALSE
    /\ gone = {}
    /\ log = <<>>
    /\ returned = NoValue
    /\ lastOp = Op("init", "none", EmptyPath, <<>>, 0, FALSE, "none")
    /\ time_shift = 0
    /\ now = clock
    /\ server = srv
    /\ local = LocalFile(FALSE, 0)

InitWith(t, srv, clock) == InitAll(t, srv, clock, Stream(<<>>, <<>>, <<>>, 0))

\* on a server whose clock is the client's
InitOn(t) == InitWith(t, Server(0, 1), 0)

Init ==
    InitOn([p \in FsPaths |-> IF p = Root \/ p = DirD THEN Node("dir", 0)
                              ELSE NoNode])

\* ------------------------------------------------ child pool and file()

\* The loop of _available_child from position k on: the first child of the
\* pool whose _file is closed, 0 (None) if there is none.
RECURSIVE AvailableFrom(_, _, _)
AvailableFrom(ch, hs, k) ==
    IF k > Len(ch) THEN 0
    ELSE IF hs[ch[k]].file_closed THEN ch[k]
    ELSE AvailableFrom(ch, hs, k + 1)

\* a pool scan that forgets to look at the stream
AvailableChildAnyStream(ch, hs) == IF Len(ch) > 0 THEN ch[1] ELSE 0

\* a pool scan that keeps the last closed stream's child, not the first
RECURSIVE AvailableLastFrom(_, _, _, _)
AvailableLastFrom(ch, hs, k, found) ==
    IF k > Len(ch) THEN found
    ELSE AvailableLastFrom(ch, hs, k + 1,
                           IF hs[ch[k]].file_closed THEN ch[k] ELSE found)

AvailableChildLast(ch, hs) == AvailableLastFrom(ch, hs, 1, 0)

AvailableChild(ch, hs) == AvailableFrom(ch, hs, 1)

\* a child that stays in the directory it is in
ChildStays(R, h, dir, fail) == R

\* host.chdir(effective_dir) on child h (FTPHost.chdir on the child's session)
\* R is [host, fs, log, exc].
ChildChdir(R, h, dir, fail) ==
    LET target == normpath(join(R.host.cwd, dir))
        issued == [R EXCEPT !.log = Append(@, Ev(h, "CWD", dir))]
    IN  IF R.host.sess # "open" THEN [R EXCEPT !.exc = "OtherError"]
        ELSE IF fail = "cwd" THEN [issued EXCEPT !.exc = "TemporaryError"]
        ELSE IF Kind(R.fs, target) # "dir"
        THEN [issued EXCEPT !.exc = "PermanentError"]
        ELSE [issued EXCEPT !.host.cwd = target]

\* _open without the two checks of the mode
FTPFileOpenAnyMode(R, h, name, mode, fail) ==
    LET target == normpath(join(R.host.cwd, name))
        readmode == HasChar(mode, "r")
        typed == [R EXCEPT !.log =
                     Append(@, Ev(h, "TYPE",
                        Path(FALSE, <<IF HasChar(mode, "b") THEN "I" ELSE "A">>)))]
        sent == [typed EXCEPT !.log =
                     Append(@, Ev(h, IF readmode THEN "RETR" ELSE "STOR", name))]
    IN  IF fail = "type" THEN [typed EXCEPT !.exc = "FTPIOError"]
        ELSE [sent EXCEPT !.exc = "FTPIOError"]

\* an _open that marks the stream open before it sends anything
FTPFileOpenMarkedFirst(R, h, name, mode, fail) ==
    [FTPFileOpenAnyMode(R, h, name, mode, fail) EXCEPT
        !.host.file_closed = FALSE]

\* _FTPFile._open(path, mode) on child h; `name` is the basename
FTPFileOpen(R, h, name, mode, fail) ==
    LET target == normpath(join(R.host.cwd, name))
        readmode == HasChar(mode, "r")
        typed == [R EXCEPT !.log =
                     Append(@, Ev(h, "TYPE",
                        Path(FALSE, <<IF HasChar(mode, "b") THEN "I" ELSE "A">>)))]
        sent == [typed EXCEPT !.log =
                     Append(@, Ev(h, IF readmode THEN "RETR" ELSE "STOR", name))]
        refused ==
            IF readmode THEN Kind(R.fs, target) # "file"
            ELSE \/ target \notin DOMAIN R.fs
                 \/ Kind(R.fs, target) = "dir"
                 \/ Kind(R.fs, split(target).head) # "dir"
    IN  IF HasChar(mode, "a") THEN [R EXCEPT !.exc = "FTPIOError"]
        ELSE IF mode \notin ValidModes THEN [R EXCEPT !.exc = "FTPIOError"]
        ELSE IF fail = "type" THEN [typed EXCEPT !.exc = "FTPIOError"]
        ELSE IF fail = "xfer" \/ refused THEN [sent EXCEPT !.exc = "FTPIOError"]
        ELSE [sent EXCEPT !.host.file_closed = FALSE,
                          !.host.served = TRUE,
                          !.host.inflight = @ + 1,
                          !.fs = IF readmode THEN @
                                 ELSE [@ EXCEPT ![target] =
                                          Stamp(Node("file", 0))],
                          !.host.stor = IF readmode THEN EmptyPath
                                        ELSE target]

\* the end of file(): `if 'w' in mode: self.stat_cache.invalidate(...)`
\* T is [cache, log].
FileInvalidateEarly(T, opened, mode, effective_path) ==
    IF HasChar(mode, "w")
    THEN [cache |-> CacheInvalidate(T.cache, effective_path),
          log |-> IF opened THEN <<InvalidateEv(effective_path)>> \o T.log
                  ELSE Append(T.log, InvalidateEv(effective_path))]
    ELSE T

FileInvalidate(T, opened, mode, effective_path) ==
    IF opened /\ HasChar(mode, "w")
    THEN [cache |-> CacheInvalidate(T.cache, effective_path),
          log |-> Append(T.log, InvalidateEv(effective_path))]
    ELSE T

\* the pool once file() is over: `self._children.append(host)` comes right
\* after _copy, before the child changes directory and opens the stream
PoolAppendWhenOpened(ch, h, spawn, exc) ==
    IF spawn /\ exc = "none" THEN Append(ch, h) ELSE ch

PoolAppend(ch, h, spawn, exc) == IF spawn THEN Append(ch, h) ELSE ch

\* the pool may grow to n child hosts
Room(n) == AvailableChild(children, hosts) = 0 => Len(hosts) < n

\* file() without `except ftp_error.PermanentError`
FileOpenNoTranslate(R1, h, name, mode, fail) ==
    IF R1.exc = "none" THEN FTPFileOpen(R1, h, name, mode, fail) ELSE R1

\* file() from `try: host.chdir(effective_dir)` to `host._file._open(...)`,
\* R1 being what host.chdir left: a PermanentError becomes an FTPIOError, any
\* other exception propagates
FileOpen(R1, h, name, mode, fail) ==
    IF R1.exc = "none" THEN FTPFileOpen(R1, h, name, mode, fail)
    ELSE IF R1.exc = "PermanentError" THEN [R1 EXCEPT !.exc = "FTPIOError"]
    ELSE R1

\* the state file() leaves, R2 being what the child did and T what the
\* invalidation did
FileReturn(R2, T, path, mode, h, spawn, fail) ==
    /\ children' = PoolAppend(children, h, spawn, R2.exc)
    /\ overlapped' = (overlapped \/ \E k \in 1..Len(children) :
                                       ~hosts[children[k]].file_closed)
    /\ hosts' = IF spawn THEN Append(hosts, R2.host)
                ELSE [hosts EXCEPT ![h] = R2.host]
    /\ fs' = R2.fs
    /\ gone' = Gone({}, R2.fs)
    /\ stat_cache' = T.cache
    /\ log' = T.log
    /\ lastOp' = Op("file", R2.exc, path, mode, h, spawn, fail)
    /\ returned' = NoValue

\* the end of file() after the child has done its part
FileEnd(R2, effective_path, path, mode, h, spawn, fail) ==
    FileReturn(R2,
               FileInvalidate([cache |-> stat_cache, log |-> R2.log],
                              R2.exc = "none", mode, effective_path),
               path, mode, h, spawn, fail)

\* file() on child h, made by this call (spawn) or taken from the pool
FileOn(h, spawn, effective_path, path, mode, fail) ==
    FileEnd(FileOpen(ChildChdir([host |-> IF spawn THEN NewChild ELSE hosts[h],
                                 fs |-> fs,
                                 log |-> IF spawn
                                         THEN <<Ev(h, "CONNECT", EmptyPath)>>
                                         ELSE <<>>,
                                 exc |-> "none"],
                                h, split(effective_path).head, fail),
                     h, split(effective_path).tail, mode, fail),
            effective_path, path, mode, h, spawn, fail)

\* file() when _copy raises: nothing has been appended
FileNoSession(h, path, mode, fail) ==
    /\ log' = <<Ev(h, "CONNECT", EmptyPath)>>
    /\ lastOp' = Op("file", "TemporaryError", path, mode, 0, TRUE, fail)
    /\ returned' = NoValue
    /\ UNCHANGED <<children, hosts, stat_cache, fs, overlapped, gone>>

\* file() once the child is chosen: avail is what _available_child returned
FileWith(avail, path, mode, fail) ==
    /\ fail = "spawn" => avail = 0
    /\ IF avail = 0 /\ fail = "spawn"
       THEN FileNoSession(Len(hosts) + 1, path, mode, fail)
       ELSE FileOn(IF avail = 0 THEN Len(hosts) + 1 ELSE avail, avail = 0,
                   IF isabs(path) THEN path ELSE join(current_dir, path),
                   path, mode, fail)

\* FTPHost.file(path, mode); `fail` injects a failure of the session factory
\* ("spawn"), of the child's CWD ("cwd"), of TYPE ("type") or of the
\* transfer command ("xfer").
File(path, mode, fail) ==
    /\ ~deleted
    /\ FileWith(AvailableChild(children, hosts), path, mode, fail)
    /\ UNCHANGED <<closed, session, current_dir, pwd, deleted>>
    /\ UNCHANGED timeVars

\* ------------------------------------------------------ closing a stream

\* _FTPFile.close() of child h's stream.  R is [host, log, exc]; `fail` makes
\* the close of the socket file ("fo"), of the socket ("conn") or the
\* end-of-transfer reply ("resp") fail.
FTPFileClose(R, h, fail) ==
    IF R.host.file_closed THEN R
    ELSE LET c0 == [R EXCEPT !.log = Append(@, Ev(h, "FOCLOSE", EmptyPath))]
             c1 == [c0 EXCEPT !.log = Append(@, Ev(h, "SOCKCLOSE", EmptyPath))]
             c2 == [c1 EXCEPT !.log = Append(@, Ev(h, "VOIDRESP", EmptyPath))]
         IN  IF fail = "fo" THEN [c0 EXCEPT !.exc = "OtherError"]
             ELSE IF fail = "conn" THEN [c1 EXCEPT !.exc = "FTPIOError"]
             ELSE IF fail = "resp" THEN [c2 EXCEPT !.exc = "FTPIOError"]
             ELSE [c2 EXCEPT !.host.file_closed = TRUE,
                             !.host.inflight = @ - 1,
                             !.host.stor = EmptyPath]

\* the state a close() of child h's stream leaves, R being what it did
StreamReturn(R, h, fail) ==
    /\ hosts' = [hosts EXCEPT ![h] = R.host]
    /\ log' = R.log
    /\ lastOp' = Op("stream_close", R.exc, EmptyPath, <<>>, h, FALSE, fail)
    /\ returned' = NoValue
    /\ UNCHANGED <<closed, session, current_dir, pwd, stat_cache, children,
                   fs, deleted, overlapped, gone>>
    /\ UNCHANGED timeVars

\* the caller closes the stream file() returned from child h
StreamClose(h, fail) ==
    /\ h \in DOMAIN hosts
    /\ hosts[h].served
    /\ fail \in {"none", "fo", "conn", "resp"}
    /\ fail # "none" => ~hosts[h].file_closed
    /\ StreamReturn(FTPFileClose([host |-> hosts[h], log |-> <<>>,
                                  exc |-> "none"], h, fail),
                    h, fail)

\* _FTPFile.write(data) on the stream of child h: one unit of data goes
\* down the data connection into the file the stream stores into
StreamWrite(h) ==
    /\ h \in DOMAIN hosts
    /\ ~hosts[h].file_closed
    /\ hosts[h].stor # EmptyPath
    /\ Kind(fs, hosts[h].stor) = "file"
    /\ Size(fs, hosts[h].stor) < MaxSize
    /\ fs' = [fs EXCEPT ![hosts[h].stor] = Stamp([@ EXCEPT !.size = @ + 1])]
    /\ log' = <<Ev(h, "DATA", hosts[h].stor)>>
    /\ lastOp' = Op("write", "none", hosts[h].stor, <<>>, h, FALSE, "none")
    /\ returned' = NoValue
    /\ UNCHANGED <<closed, session, current_dir, pwd, stat_cache, children,
                   hosts, deleted, overlapped, gone>>
    /\ UNCHANGED timeVars

\* ------------------------------------------------------- closing a host

\* FTPHost.close() on child h (a child has no children of its own).
\* R is [host, log, exc].
ChildClose(R, h, fail) ==
    IF R.host.closed THEN R
    ELSE LET c == [R EXCEPT !.log = Append(@, Ev(h, "CLOSE", EmptyPath))]
         IN  IF fail = "sess"
             THEN [c EXCEPT !.exc = "TemporaryError", !.host.closed = TRUE]
             ELSE [c EXCEPT !.host.sess = "closed", !.host.closed = TRUE]

\* `host.close()` of the loop, F being what `host._file.close()` left
CloseChild(F, h, f) == IF F.exc # "none" THEN F ELSE ChildClose(F, h, f)

\* `for host in self._children: host._file.close(); host.close()` from pool
\* position k on.  R is [hosts, log, exc]; the call that fails, if any, is
\* call fail.what on the child at pool position fail.at.
RECURSIVE CloseChildren(_, _, _, _)
\* the rest of the loop, C being what the two calls on child h left
CloseNext(R, C, h, ch, k, fail) ==
    CloseChildren([hosts |-> [R.hosts EXCEPT ![h] = C.host],
                   log |-> C.log, exc |-> C.exc], ch, k + 1, fail)

\* one round of the loop, on child h
CloseOne(R, h, f, ch, k, fail) ==
    CloseNext(R,
              CloseChild(FTPFileClose([host |-> R.hosts[h], log |-> R.log,
                                       exc |-> "none"], h, f), h, f),
              h, ch, k, fail)

CloseChildren(R, ch, k, fail) ==
    IF k > Len(ch) \/ R.exc # "none" THEN R
    ELSE CloseOne(R, ch[k], IF fail.at = k THEN fail.what ELSE "none",
                  ch, k, fail)

NoFail == [at |-> 0, what |-> "none"]

\* the failures close() can meet in the current state
CloseFails ==
    {NoFail}
    \cup {[at |-> 0, what |-> "sess"]}
    \cup {[at |-> k, what |-> w] : k \in 1..Len(children),
                                   w \in {"fo", "conn", "resp", "sess"}}

FailApplies(fail) ==
    /\ closed => fail = NoFail
    /\ fail.what \in {"fo", "conn", "resp"} =>
          /\ fail.at \in 1..Len(children)
          /\ ~hosts[children[fail.at]].file_closed
    /\ fail.what = "sess" /\ fail.at >= 1 => ~hosts[children[fail.at]].closed

\* the `try: session.close() finally: ...` of close(), after the loop.
\* The result is [closed, session, cache, children, hosts, log, exc].
CloseSelfNoFinally(R, fail) ==
    LET c == Append(R.log, Ev(0, "CLOSE", EmptyPath))
        failed == fail.at = 0 /\ fail.what = "sess"
    IN  IF failed
        THEN [closed |-> closed, session |-> session, cache |-> stat_cache,
              children |-> children, hosts |-> R.hosts, log |-> c,
              exc |-> "TemporaryError"]
        ELSE [closed |-> TRUE, session |-> "closed", cache |-> CacheClear,
              children |-> <<>>, hosts |-> R.hosts, log |-> c, exc |-> "none"]

CloseSelf(R, fail) ==
    LET c == Append(R.log, Ev(0, "CLOSE", EmptyPath))
        failed == fail.at = 0 /\ fail.what = "sess"
    IN  [closed |-> TRUE,
         session |-> IF failed THEN session ELSE "closed",
         cache |-> CacheClear,
         children |-> <<>>,
         hosts |-> R.hosts,
         log |-> c,
         exc |-> IF failed THEN "TemporaryError" ELSE "none"]

\* close() after the loop over the children, R being what the loop left: an
\* exception of the loop propagates and the `try` is never entered
HostCloseSelf(R, fail) ==
    IF R.exc # "none"
    THEN [closed |-> closed, session |-> session, cache |-> stat_cache,
          children |-> children, hosts |-> R.hosts, log |-> R.log,
          exc |-> R.exc]
    ELSE CloseSelf(R, fail)

\* close() without `if self.closed: return`
HostCloseNoGuard(fail) ==
    HostCloseSelf(CloseChildren([hosts |-> hosts, log |-> <<>>,
                                 exc |-> "none"], children, 1, fail), fail)

\* FTPHost.close() on the caller's host
HostClose(fail) ==
    IF closed
    THEN [closed |-> closed, session |-> session, cache |-> stat_cache,
          children |-> children, hosts |-> hosts, log |-> <<>>,
          exc |-> "none"]
    ELSE HostCloseSelf(CloseChildren([hosts |-> hosts, log |-> <<>>,
                                      exc |-> "none"], children, 1, fail),
                       fail)

FailedChild(fail) == IF fail.at >= 1 THEN children[fail.at] ELSE 0

\* the host's attributes after close(), C being what HostClose returned
CloseReturn(C) ==
    /\ closed' = C.closed
    /\ session' = C.session
    /\ stat_cache' = C.cache
    /\ children' = C.children
    /\ hosts' = C.hosts
    /\ overlapped' = (overlapped /\ ~(children # <<>> /\ C.children = <<>>))
    /\ log' = C.log
    /\ returned' = NoValue
    /\ UNCHANGED <<current_dir, pwd, fs, gone>>
    /\ UNCHANGED timeVars

CloseEnd(C, fail) ==
    /\ CloseReturn(C)
    /\ lastOp' = Op("close", C.exc, EmptyPath, <<>>, FailedChild(fail),
                    FALSE, fail.what)
    /\ UNCHANGED deleted

Close(fail) ==
    /\ ~deleted
    /\ FailApplies(fail)
    /\ CloseEnd(HostClose(fail), fail)

\* what __del__ lets out of `try: self.close() except: pass`
DelRaises(exc) == exc

DelSwallows(exc) == "none"

DelEnd(C, fail) ==
    /\ CloseReturn(C)
    /\ deleted' = TRUE
    /\ lastOp' = Op("del", DelSwallows(C.exc), EmptyPath, <<>>,
                    FailedChild(fail), FALSE, fail.what)

\* FTPHost.__del__ on the caller's host: the object is gone afterwards
Del(fail) ==
    /\ ~deleted
    /\ FailApplies(fail)
    /\ DelEnd(HostClose(fail), fail)

\* ------------------------------------- commands on the primary session
\* A call's progress is a record S:
\*   open   the primary session is open        cwd   _current_dir
\*   pwd    the session's directory on the server
\*   cache  the stat cache                     fs    the server's files
\*   log    what has been issued so far        fuse  commands until the
\*   exc    the exception being raised               injected failure
\*   ret    the value returned

Start(fuse) ==
    [open |-> session = "open", cwd |-> current_dir, pwd |-> pwd,
     cache |-> stat_cache, fs |-> fs, log |-> <<>>, fuse |-> fuse,
     exc |-> "none", ret |-> FALSE]

\* one command sent on the primary session
Issue(S, cmd, arg) ==
    [S EXCEPT !.log = Append(@, Ev(0, cmd, arg)),
              !.fuse = IF @ > 0 THEN @ - 1 ELSE 0]

Raise(S, exc) == [S EXCEPT !.exc = exc]

\* the command about to be sent is the one that fails
Blows(S) == S.fuse = 1

\* chdir that keeps the joined path as it is
ChdirNoNormpath(S, path) ==
    LET target == normpath(join(S.pwd, path))
        S1 == Issue(S, "CWD", path)
    IN  IF ~S.open THEN Raise(S, "OtherError")
        ELSE IF Blows(S) THEN Raise(S1, "TemporaryError")
        ELSE IF Kind(S.fs, Enter(S.fs, target)) # "dir"
        THEN Raise(S1, "PermanentError")
        ELSE [S1 EXCEPT !.pwd = Enter(S.fs, target),
                        !.cwd = join(S.cwd, path)]

\* FTPHost.chdir(path)
Chdir(S, path) ==
    LET target == normpath(join(S.pwd, path))
        S1 == Issue(S, "CWD", path)
    IN  IF ~S.open THEN Raise(S, "OtherError")
        ELSE IF Blows(S) THEN Raise(S1, "TemporaryError")
        ELSE IF Kind(S.fs, Enter(S.fs, target)) # "dir"
        THEN Raise(S1, "PermanentError")
        ELSE [S1 EXCEPT !.pwd = Enter(S.fs, target),
                        !.cwd = normpath(join(S.cwd, path))]

\* the `except PermanentError` of _check_inaccessible_login_directory, S1
\* being what `self.chdir(presumable_login_dir)` left
LoginDirError(S1) ==
    IF S1.exc = "PermanentError"
    THEN Raise(S1, "InaccessibleLoginDirError")
    ELSE S1

\* the check of the login directory left out
CheckSkipped(S) == S

\* FTPHost._check_inaccessible_login_directory()
CheckInaccessibleLoginDirectory(S) == LoginDirError(Chdir(S, S.cwd))

\* the callbacks of mkdir, rmdir, remove, chmod and _dir: one command in the
\* session's current directory, and what the server does with it
Command(S, command, tail) ==
    LET target == normpath(join(S.pwd, tail))
        S1 == Issue(S, command, tail)
        kind == Kind(S.fs, target)
        parentIsDir == Kind(S.fs, split(target).head) = "dir"
        refused ==
            CASE command = "MKD" ->
                    \/ target \notin DOMAIN S.fs
                    \/ kind # "none"
                    \/ ~parentIsDir
              [] command = "RMD" ->
                    \/ kind # "dir"
                    \/ target = Root
                    \/ Entries(S.fs, target) # {}
              [] command = "DELE" -> kind # "file" \/ target \in Protected
              [] command = "SITE CHMOD" -> kind = "none"
              [] OTHER -> FALSE
    IN  IF ~S.open THEN Raise(S, "OtherError")
        ELSE IF Blows(S) THEN Raise(S1, "TemporaryError")
        ELSE IF refused THEN Raise(S1, "PermanentError")
        ELSE CASE command = "MKD" -> [S1 EXCEPT !.fs[target] = Node("dir", 0)]
               [] command = "RMD" -> [S1 EXCEPT !.fs[target] = NoNode]
               [] command = "DELE" -> [S1 EXCEPT !.fs[target] = NoNode]
               [] command = "LIST" ->
                     [S1 EXCEPT !.ret = Entries(S.fs, target)]
               [] OTHER -> S1

\* the body of the `try` of _robust_ftp_command after its chdir, S1 being
\* what that chdir left
RobustBody(S1, command, tail) ==
    IF S1.exc # "none" THEN S1 ELSE Command(S1, command, tail)

\* what leaves the `try ... finally`, S2 being what the body left and S3
\* what `self.chdir(old_dir)` left: an exception of the restore replaces
\* the body's
RobustOutcome(S2, S3) ==
    IF S3.exc # "none" THEN S3 ELSE [S3 EXCEPT !.exc = S2.exc]

\* the `finally: self.chdir(old_dir)` left out
RobustFinallyNoRestore(S2, old_dir) == S2

\* `finally: self.chdir(old_dir)`
RobustFinally(S2, old_dir) ==
    RobustOutcome(S2, Chdir([S2 EXCEPT !.exc = "none"], old_dir))

\* _robust_ftp_command after the check of the login directory, S0 being
\* what the check left
RobustTry(S0, command, path, descend_deeply) ==
    IF S0.exc # "none" THEN S0
    ELSE RobustFinally(
             RobustBody(Chdir(S0, IF descend_deeply THEN path
                                  ELSE split(path).head),
                        command,
                        IF descend_deeply THEN EmptyPath
                        ELSE split(path).tail),
             S0.cwd)

\* FTPHost._robust_ftp_command(command, path, descend_deeply)
RobustFtpCommand(S, command, path, descend_deeply) ==
    RobustTry(CheckInaccessibleLoginDirectory(S), command, path,
              descend_deeply)

\* RNTO of session.rename, S1 being what RNFR left: the server moves the
\* entry at src (a name without entries of its own) to the target
RenameTo(S1, src, target) ==
    IF S1.exc # "none" THEN S1
    ELSE IF Blows(S1) THEN Raise(Issue(S1, "RNTO", target), "TemporaryError")
    ELSE IF \/ normpath(join(S1.pwd, target)) \notin DOMAIN S1.fs
            \/ Kind(S1.fs, normpath(join(S1.pwd, target))) # "none"
            \/ Kind(S1.fs, split(normpath(join(S1.pwd, target))).head) # "dir"
    THEN Raise(Issue(S1, "RNTO", target), "PermanentError")
    ELSE [Issue(S1, "RNTO", target) EXCEPT
              !.fs[normpath(join(S1.pwd, target))] = S1.fs[src],
              !.fs[src] = NoNode]

\* RNFR of session.rename
RenameFrom(S, source) ==
    IF ~S.open THEN Raise(S, "OtherError")
    ELSE IF Blows(S) THEN Raise(Issue(S, "RNFR", source), "TemporaryError")
    ELSE IF Kind(S.fs, normpath(join(S.pwd, source))) = "none"
    THEN Raise(Issue(S, "RNFR", source), "PermanentError")
    ELSE Issue(S, "RNFR", source)

\* `ftp_error._try_with_oserror(self._session.rename, source, target)`
SessionRename(S, source, target) ==
    RenameTo(RenameFrom(S, source), normpath(join(S.pwd, source)), target)

\* the body of the `try` of rename, S1 being what `self.chdir(source_head)`
\* left
RenameBody(S1, source_tail, target_tail) ==
    IF S1.exc # "none" THEN S1 ELSE SessionRename(S1, source_tail, target_tail)

\* rename's `finally: self.chdir(old_dir)`
RenameFinally(S2, old_dir) ==
    RobustOutcome(S2, Chdir([S2 EXCEPT !.exc = "none"], old_dir))

\* rename after the check of the login directory, S0 being what the check
\* left
RenameChecked(S0, source, target) ==
    IF S0.exc # "none" THEN S0
    ELSE IF /\ HasSpace(split(source).head) \/ HasSpace(split(target).head)
            /\ split(source).head = split(target).head
    THEN RenameFinally(RenameBody(Chdir(S0, split(source).head),
                                  split(source).tail, split(target).tail),
                       S0.cwd)
    ELSE SessionRename(S0, source, target)

\* FTPHost.rename(source, target)
RenameCall(S, source, target) ==
    RenameChecked(CheckInaccessibleLoginDirectory(S), source, target)

\* FTPHost._dir(path): the listing of directory `path`
Dir(S, path) == RobustFtpCommand(S, "LIST", path, TRUE)

\* ------------------------------------------------------------ stat service

\* the cache after the records of a listing of directory p have been stored:
\* each under the path p joined with its name
CacheListing(S, p, listed) ==
    [k \in DOMAIN S.cache \cup {join(p, split(q).tail) : q \in listed} |->
        IF \E q \in listed : k = join(p, split(q).tail)
        THEN Listed(S.fs[CHOOSE q \in listed : k = join(p, split(q).tail)])
        ELSE S.cache[k]]

\* what listdir does with the listing of directory p, S1 being what _dir left
StoreListing(S1, p) ==
    IF S1.exc # "none" THEN S1
    ELSE [S1 EXCEPT !.cache = CacheListing(S1, p, S1.ret)]

\* listdir of the absolute path p
ListdirAbs(S, p) == StoreListing(Dir(S, p), p)

\* _Stat.listdir(path): the names come back in S.ret
StatListdir(S, path) == ListdirAbs(S, abspath(S.cwd, path))

\* lstat of p after its directory has been listed, S1 being what the
\* listing left
LstatListed(S1, p, exception_for_missing_path) ==
    IF S1.exc # "none" THEN S1
    ELSE IF p \in DOMAIN S1.cache THEN [S1 EXCEPT !.ret = S1.cache[p]]
    ELSE IF exception_for_missing_path THEN Raise(S1, "PermanentError")
    ELSE [S1 EXCEPT !.ret = NoNode]

\* lstat of the absolute path p: from the cache, or from a listing of the
\* directory of p
LstatAbs(S, p, exception_for_missing_path) ==
    IF p \in DOMAIN S.cache THEN [S EXCEPT !.ret = S.cache[p]]
    ELSE LstatListed(StatListdir(S, split(p).head), p,
                     exception_for_missing_path)

\* _Stat.lstat(path, _exception_for_missing_path): the record's kind comes
\* back in S.ret, NoNode (None) for the missing path that raises nothing
StatLstat(S, path, exception_for_missing_path) ==
    LstatAbs(S, abspath(S.cwd, path), exception_for_missing_path)

\* a link's target taken from the root, whatever directory the link is in
LinkTargetFromRoot(p, target) == normpath(join(Root, target))

\* the path a link found at p leads to
LinkTarget(p, target) == normpath(join(split(p).head, target))

RECURSIVE StatFollow(_, _, _, _)

\* one turn of the loop of stat, L being what lstat of p left: the record
\* of what is no link, or lstat of the link's target unless that path has
\* been visited
StatNext(L, p, visited, exception_for_missing_path) ==
    IF L.exc # "none" \/ L.ret.kind # "link" THEN L
    ELSE IF LinkTarget(p, L.ret.target) \in visited
    THEN Raise(L, "PermanentError")
    ELSE StatFollow(L, LinkTarget(p, L.ret.target),
                    visited \cup {LinkTarget(p, L.ret.target)},
                    exception_for_missing_path)

StatFollow(S, p, visited, exception_for_missing_path) ==
    StatNext(LstatAbs(S, p, exception_for_missing_path), p, visited,
             exception_for_missing_path)

\* _Stat.stat(path, _exception_for_missing_path): lstat that follows links
StatStat(S, path, exception_for_missing_path) ==
    StatFollow(S, abspath(S.cwd, path), {}, exception_for_missing_path)

\* the predicates of ftp_path, S1 being what stat or lstat left: is the
\* path one of `kinds`?  A missing path is False, never an error
Predicate(S1, kinds) ==
    IF S1.exc = "PermanentError" THEN [S1 EXCEPT !.exc = "none", !.ret = FALSE]
    ELSE IF S1.exc # "none" THEN S1
    ELSE [S1 EXCEPT !.ret = (S1.ret.kind \in kinds)]

PathIsfile(S, path) == Predicate(StatStat(S, path, FALSE), {"file"})

PathIsdir(S, path) == Predicate(StatStat(S, path, FALSE), {"dir"})

PathIslink(S, path) == Predicate(StatLstat(S, path, FALSE), {"link"})

PathExists(S, path) ==
    Predicate(StatStat(S, path, FALSE), {"file", "dir", "link"})

\* st_size of the record stat left in S1.ret
StSize(S1) == IF S1.exc # "none" THEN S1 ELSE [S1 EXCEPT !.ret = S1.ret.size]

\* ftp_path getsize(path): stat(path).st_size
PathGetsize(S, path) == StSize(StatStat(S, path, TRUE))

\* st_mtime of the record stat left in S1.ret
StMtime(S1) ==
    IF S1.exc # "none" THEN S1 ELSE [S1 EXCEPT !.ret = S1.ret.mtime]

\* ftp_path getmtime(path): stat(path).st_mtime
PathGetmtime(S, path) == StMtime(StatStat(S, path, TRUE))

\* --------------------------------------------- directories and files

Invalidate(S, p) ==
    [S EXCEPT !.cache = CacheInvalidate(@, p),
              !.log = Append(@, InvalidateEv(p))]

\* the invalidation forgotten
InvalidateAfterNever(S, p) == S

\* `self.stat_cache.invalidate(path)` as the statement after
\* `self._robust_ftp_command(command, path)`, S being what the command left
InvalidateAfter(S, p) == IF S.exc # "none" THEN S ELSE Invalidate(S, p)

\* FTPHost.mkdir(path)
MkdirCall(S, path) == RobustFtpCommand(S, "MKD", path, FALSE)

\* makedirs: `next_directory` of the loop's turn `index`, for the absolute
\* path p; "/" splits into two empty names and has the one turn "/"
NextDirectory(p, index) ==
    IF p.parts = <<>> THEN Root ELSE Path(TRUE, SubSeq(p.parts, 1, index))

\* number of turns of the loop `for index in range(1, len(directories))`
Turns(p) == IF p.parts = <<>> THEN 1 ELSE Len(p.parts)

\* `if not self.path.isdir(next_directory): raise`, S2 being what isdir left
MakedirsReraise(S2) ==
    IF S2.exc # "none" \/ S2.ret THEN S2 ELSE Raise(S2, "PermanentError")

\* makedirs that swallows every PermanentError of mkdir
MakedirsExceptAll(S1, next_directory) ==
    IF S1.exc = "PermanentError" THEN Raise(S1, "none") ELSE S1

\* `except ftp_error.PermanentError:` of makedirs, S1 being what mkdir left
MakedirsExcept(S1, next_directory) ==
    IF S1.exc = "PermanentError"
    THEN MakedirsReraise(PathIsdir(Raise(S1, "none"), next_directory))
    ELSE S1

\* the loop of makedirs from turn `index` on, p being the absolute path
RECURSIVE MakedirsLoop(_, _, _)
MakedirsLoop(S, p, index) ==
    IF S.exc # "none" \/ index > Turns(p) THEN S
    ELSE MakedirsLoop(MakedirsExcept(MkdirCall(S, NextDirectory(p, index)),
                                     NextDirectory(p, index)),
                      p, index + 1)

\* FTPHost.makedirs(path)
MakedirsCall(S, path) == MakedirsLoop(S, abspath(S.cwd, path), 1)

\* rmdir with the invalidation moved in front of the command
RmdirCommandInvalidateFirst(S1, p) ==
    IF S1.exc # "none" THEN S1
    ELSE IF S1.ret # {} THEN Raise(S1, "PermanentError")
    ELSE RobustFtpCommand(Invalidate(S1, p), "RMD", p, FALSE)

\* rmdir without `if self.listdir(path): raise`
RmdirCommandNoListing(S1, p) ==
    IF S1.exc # "none" THEN S1
    ELSE InvalidateAfter(RobustFtpCommand(S1, "RMD", p, FALSE), p)

\* rmdir after `self.listdir(path)`, S1 being what the listing left
RmdirCommand(S1, p) ==
    IF S1.exc # "none" THEN S1
    ELSE IF S1.ret # {} THEN Raise(S1, "PermanentError")
    ELSE InvalidateAfter(RobustFtpCommand(S1, "RMD", p, FALSE), p)

\* rmdir of the absolute path p
RmdirAbs(S, p) == RmdirCommand(StatListdir(S, p), p)

\* FTPHost.rmdir(path)
RmdirCall(S, path) == RmdirAbs(S, abspath(S.cwd, path))

\* The condition of remove, `isfile(path) or islink(path) or not
\* exists(path)`, evaluated from left to right: its value comes back in
\* S.ret.  S3 is what exists left, S2 what islink left, S1 what isfile left.
RemoveNotExists(S3) ==
    IF S3.exc # "none" THEN S3 ELSE [S3 EXCEPT !.ret = ~S3.ret]

RemoveOrIslink(S2, p) ==
    IF S2.exc # "none" \/ S2.ret THEN S2
    ELSE RemoveNotExists(PathExists(S2, p))

RemoveOrIsfile(S1, p) ==
    IF S1.exc # "none" \/ S1.ret THEN S1
    ELSE RemoveOrIslink(PathIslink(S1, p), p)

\* remove with the DELE sent whatever the condition says
RemoveCommandAlways(C, p) ==
    IF C.exc # "none" THEN C
    ELSE InvalidateAfter(RobustFtpCommand(C, "DELE", p, FALSE), p)

\* remove after its condition, C being what the condition left
RemoveCommand(C, p) ==
    IF C.exc # "none" THEN C
    ELSE IF ~C.ret THEN Raise(C, "PermanentError")
    ELSE InvalidateAfter(RobustFtpCommand(C, "DELE", p, FALSE), p)

\* remove of the absolute path p
RemoveAbs(S, p) == RemoveCommand(RemoveOrIsfile(PathIsfile(S, p), p), p)

\* FTPHost.remove(path)
RemoveCall(S, path) == RemoveAbs(S, abspath(S.cwd, path))

\* chmod of the absolute path p
ChmodAbs(S, p) ==
    InvalidateAfter(RobustFtpCommand(S, "SITE CHMOD", p, FALSE), p)

\* FTPHost.chmod(path, mode)
ChmodCall(S, path) == ChmodAbs(S, abspath(S.cwd, path))

\* the calls on the primary session that return a value
ValueOps == {"listdir", "lstat", "stat", "getsize", "exists", "walk"}

\* the state after a call on the primary session, `mode` being the keyword
\* arguments the caller gave
FinishWith(S, op, path, mode) ==
    /\ current_dir' = S.cwd
    /\ pwd' = S.pwd
    /\ stat_cache' = S.cache
    /\ fs' = S.fs
    /\ gone' = Gone(IF op \in {"rmdir", "remove"} /\ S.exc = "none"
                    THEN {abspath(current_dir, path)}
                    ELSE IF op = "rmtree"
                    THEN {p \in DOMAIN fs : Kind(fs, p) # "none"}
                    ELSE {}, S.fs)
    /\ log' = S.log
    /\ lastOp' = Op(op, S.exc, path, mode, 0, FALSE,
                    IF S.exc = "TemporaryError" THEN "fuse" ELSE "none")
    /\ returned' = IF S.exc = "none" /\ op \in ValueOps THEN S.ret
                   ELSE NoValue
    /\ UNCHANGED <<closed, session, children, hosts, deleted, overlapped>>
    /\ UNCHANGED timeVars

Finish(S, op, path) == FinishWith(S, op, path, <<>>)

\* the injected failure must be reached: a fuse longer than the call's
\* commands is the call without failure
Reached(S) == S.fuse = 0 \/ S.exc = "TemporaryError"

\* a call on the primary session that left S
Return(S, op, path) == ~deleted /\ Reached(S) /\ Finish(S, op, path)

ChdirOp(path) == Return(Chdir(Start(0), path), "chdir", path)

Mkdir(path, fuse) == Return(MkdirCall(Start(fuse), path), "mkdir", path)

Rmdir(path, fuse) == Return(RmdirCall(Start(fuse), path), "rmdir", path)

Remove(path, fuse) == Return(RemoveCall(Start(fuse), path), "remove", path)

Chmod(path, fuse) == Return(ChmodCall(Start(fuse), path), "chmod", path)

Listdir(path, fuse) ==
    Return(StatListdir(Start(fuse), path), "listdir", path)

Lstat(path, fuse) ==
    Return(StatLstat(Start(fuse), path, TRUE), "lstat", path)

\* FTPHost.stat(path)
Stat(path, fuse) ==
    Return(StatStat(Start(fuse), path, TRUE), "stat", path)

Makedirs(path, fuse) ==
    Return(MakedirsCall(Start(fuse), path), "makedirs", path)

Rename(source, target, fuse) ==
    Return(RenameCall(Start(fuse), source, target), "rename", source)

Exists(path, fuse) ==
    Return(PathExists(Start(fuse), path), "exists", path)

Getsize(path, fuse) ==
    Return(PathGetsize(Start(fuse), path), "getsize", path)

\* ------------------------------------------------------------------ rmtree

\* the exceptions `except ftp_error.FTPOSError` catches
FTPOSErrors ==
    {"PermanentError", "TemporaryError", "InaccessibleLoginDirError"}

\* the handler's call as the caller sees it
OnerrorEv(func, path) == Ev(0, "onerror", [func |-> func, path |-> path])

\* rmtree whose caller's handler, when given, comes before ignore_errors
NewOnerrorHandlerFirst(ignore_errors, onerror) ==
    IF onerror # "None" THEN onerror
    ELSE IF ignore_errors THEN "pass" ELSE "raise"

\* `new_onerror` of rmtree: the function that does nothing ("pass"), the one
\* that re-raises ("raise"), or `onerror` itself, which is the caller's
\* handler ("onerror") or, in a recursive call, the `new_onerror` of the
\* calling rmtree
NewOnerror(ignore_errors, onerror) ==
    IF ignore_errors THEN "pass"
    ELSE IF onerror = "None" THEN "raise"
    ELSE onerror

\* `except <caught>: new_onerror(func, path, sys.exc_info())`, S1 being what
\* the guarded call left; the caller's handler returns
CallOnerror(S1, caught, new_onerror, func, path) ==
    IF S1.exc \notin caught THEN S1
    ELSE CASE new_onerror = "pass" -> Raise(S1, "none")
           [] new_onerror = "raise" -> S1
           [] OTHER -> [S1 EXCEPT !.exc = "none",
                                  !.log = Append(@, OnerrorEv(func, path))]

\* `names = []; try: names = self.listdir(path) except PermanentError: ...`,
\* S1 being what listdir left: the names come back in S.ret
RmtreeNames(S1, new_onerror, path) ==
    CallOnerror(IF S1.exc = "PermanentError" THEN [S1 EXCEPT !.ret = {}]
                ELSE S1,
                {"PermanentError"}, new_onerror, "listdir", path)

\* `try: self.remove(full_name) except PermanentError: ...`
RmtreeRemove(S, new_onerror, full_name) ==
    CallOnerror(RemoveCall(S, full_name), {"PermanentError"}, new_onerror,
                "remove", full_name)

\* `try: self.rmdir(path) except FTPOSError: ...`
RmtreeRmdir(S, new_onerror, path) ==
    IF S.exc # "none" THEN S
    ELSE CallOnerror(RmdirCall(S, path), FTPOSErrors, new_onerror,
                     "rmdir", path)

\* the name the loop takes next: the listing's order is the server's
NextName(names) == CHOOSE n \in names : TRUE

RECURSIVE RmtreeCall(_, _, _, _)
RECURSIVE RmtreeLoop(_, _, _, _, _)

\* one turn of `for name in names` after lstat, L being what
\* `self.lstat(full_name)` left: `mode` is 0 when lstat raised
\* PermanentError, and what is no directory is removed as a file
RmtreeEntry(L, ignore_errors, new_onerror, full_name) ==
    IF L.exc = "PermanentError"
    THEN RmtreeRemove(Raise(L, "none"), new_onerror, full_name)
    ELSE IF L.exc # "none" THEN L
    ELSE IF L.ret.kind = "dir"
    THEN RmtreeCall(L, full_name, ignore_errors, new_onerror)
    ELSE RmtreeRemove(L, new_onerror, full_name)

\* `for name in names`, the names being entries of the listed directory
RmtreeLoop(S, ignore_errors, new_onerror, path, names) ==
    IF S.exc # "none" \/ names = {} THEN S
    ELSE RmtreeLoop(
             RmtreeEntry(
                 StatLstat(S, join(path, split(NextName(names)).tail), TRUE),
                 ignore_errors, new_onerror,
                 join(path, split(NextName(names)).tail)),
             ignore_errors, new_onerror, path, names \ {NextName(names)})

\* rmtree from its loop on, S1 being what the guarded listdir left
RmtreeListed(S1, ignore_errors, new_onerror, path) ==
    RmtreeRmdir(RmtreeLoop(S1, ignore_errors, new_onerror, path, S1.ret),
                new_onerror, path)

\* FTPHost.rmtree(path, ignore_errors, onerror)
RmtreeCall(S, path, ignore_errors, onerror) ==
    RmtreeListed(RmtreeNames(StatListdir(S, path),
                             NewOnerror(ignore_errors, onerror), path),
                 ignore_errors, NewOnerror(ignore_errors, onerror), path)

\* the keyword arguments of an rmtree call as lastOp.mode has them
RmtreeArgs(ignore_errors, onerror) ==
    <<IF ignore_errors THEN "ignore_errors" ELSE "", onerror>>

Rmtree(path, ignore_errors, onerror) ==
    /\ ~deleted
    /\ FinishWith(RmtreeCall(Start(0), path, ignore_errors, onerror),
                  "rmtree", path, RmtreeArgs(ignore_errors, onerror))

\* -------------------------------------------------------------------- walk
\* The generator is followed to its end: G is [s, out], the progress record
\* of the call and the triples yielded so far.

Triple(top, dirs, nondirs) ==
    [top |-> top, dirs |-> dirs, nondirs |-> nondirs]

\* the names of the entries a listing returned
Names(listed) == {split(q).tail : q \in listed}

\* `if self.path.isdir(...): dirs.append(name)`, I being what isdir left and
\* C, which is [s, dirs], what the loop has done so far
WalkSort(I, C, name) ==
    [s |-> I, dirs |-> IF I.exc = "none" /\ I.ret THEN C.dirs \cup {name}
                       ELSE C.dirs]

\* `for name in names` that sorts the names into dirs and nondirs
RECURSIVE WalkClassify(_, _, _)
WalkClassify(C, top, names) ==
    IF C.s.exc # "none" \/ names = {} THEN C
    ELSE WalkClassify(WalkSort(PathIsdir(C.s, join(top, NextName(names))),
                               C, NextName(names)),
                      top, names \ {NextName(names)})

RECURSIVE WalkCall(_, _, _)

\* walk that yields nothing after the subdirectories
WalkAfterNever(G, triple, topdown) == G

\* `if not topdown: yield top, dirs, nondirs`
WalkAfter(G, triple, topdown) ==
    IF G.s.exc # "none" \/ topdown THEN G
    ELSE [G EXCEPT !.out = Append(@, triple)]

\* `if not self.path.islink(path): for item in self.walk(path, ...)`, K
\* being what islink left
WalkDescend(K, out, path, topdown) ==
    IF K.exc # "none" \/ K.ret THEN [s |-> K, out |-> out]
    ELSE WalkCall([s |-> K, out |-> out], path, topdown)

\* `for name in dirs`
RECURSIVE WalkDirs(_, _, _, _)
WalkDirs(G, top, dirs, topdown) ==
    IF G.s.exc # "none" \/ dirs = {} THEN G
    ELSE WalkDirs(WalkDescend(PathIslink(G.s, join(top, NextName(dirs))),
                              G.out, join(top, NextName(dirs)), topdown),
                  top, dirs \ {NextName(dirs)}, topdown)

\* walk after the names have been sorted, C being what the sorting left
WalkSorted(C, out, top, names, topdown) ==
    IF C.s.exc # "none" THEN [s |-> C.s, out |-> out]
    ELSE WalkAfter(
             WalkDirs([s |-> C.s,
                       out |-> IF topdown
                               THEN Append(out, Triple(top, C.dirs,
                                                       names \ C.dirs))
                               ELSE out],
                      top, C.dirs, topdown),
             Triple(top, C.dirs, names \ C.dirs), topdown)

\* walk after `names = self.listdir(top)`, L being what listdir left: with
\* onerror None an FTPOSError ends the generator
WalkListed(L, out, top, topdown) ==
    IF L.exc \in FTPOSErrors THEN [s |-> Raise(L, "none"), out |-> out]
    ELSE IF L.exc # "none" THEN [s |-> L, out |-> out]
    ELSE WalkSorted(WalkClassify([s |-> L, dirs |-> {}], top, Names(L.ret)),
                    out, top, Names(L.ret), topdown)

\* FTPHost.walk(top, topdown), G.out being what has been yielded before
WalkCall(G, top, topdown) ==
    WalkListed(StatListdir(G.s, top), G.out, top, topdown)

\* what the caller has after the last item
WalkResult(G) == [G.s EXCEPT !.ret = G.out]

WalkArgs(topdown) == <<IF topdown THEN "topdown" ELSE "">>

Walk(top, topdown) ==
    /\ ~deleted
    /\ FinishWith(WalkResult(WalkCall([s |-> Start(0), out |-> <<>>], top,
                                      topdown)),
                  "walk", top, WalkArgs(topdown))

\* ------------------------------------- calls that use a child of the pool
\* The progress record X of a call that works on the primary session and
\* through file(): the fields of Start and
\*   children, hosts   the pool and the child hosts
\*   overlapped        file() has been called while a pooled stream was open
\*   child, spawned    the child the last file() chose, and whether it made it
\*   shift             _time_shift
\*   local             the local file

StartAll(fuse) ==
    [open |-> session = "open", cwd |-> current_dir, pwd |-> pwd,
     cache |-> stat_cache, fs |-> fs, log |-> <<>>, fuse |-> fuse,
     exc |-> "none", ret |-> FALSE, children |-> children, hosts |-> hosts,
     overlapped |-> overlapped, child |-> 0, spawned |-> FALSE,
     shift |-> time_shift, local |-> local]

\* what file() leaves, R2 being what the child did and T what the
\* invalidation did
XFileSet(X, R2, T, h, spawn) ==
    [X EXCEPT !.children = PoolAppend(@, h, spawn, R2.exc),
              !.overlapped = (@ \/ \E k \in 1..Len(X.children) :
                                      ~X.hosts[X.children[k]].file_closed),
              !.hosts = IF spawn THEN Append(@, R2.host)
                        ELSE [@ EXCEPT ![h] = R2.host],
              !.fs = R2.fs,
              !.cache = T.cache,
              !.log = T.log,
              !.exc = R2.exc,
              !.child = h,
              !.spawned = spawn]

\* the end of file() after the child has done its part
XFileEnd(X, R2, h, spawn, mode, effective_path) ==
    XFileSet(X, R2,
             FileInvalidate([cache |-> X.cache, log |-> R2.log],
                            R2.exc = "none", mode, effective_path),
             h, spawn)

\* file() on child h, made by this call (spawn) or taken from the pool
XFileOn(X, h, spawn, effective_path, mode, fail) ==
    XFileEnd(X,
             FileOpen(ChildChdir([host |-> IF spawn THEN NewChild
                                           ELSE X.hosts[h],
                                  fs |-> X.fs,
                                  log |-> IF spawn
                                          THEN Append(X.log,
                                                   Ev(h, "CONNECT", EmptyPath))
                                          ELSE X.log,
                                  exc |-> "none"],
                                 h, split(effective_path).head, fail),
                      h, split(effective_path).tail, mode, fail),
             h, spawn, mode, effective_path)

\* file() once the child is chosen; when _copy raises nothing is appended
XFileWith(X, avail, path, mode, fail) ==
    IF avail = 0 /\ fail = "spawn"
    THEN [X EXCEPT !.log = Append(@, Ev(Len(X.hosts) + 1, "CONNECT",
                                       EmptyPath)),
                   !.exc = "TemporaryError",
                   !.spawned = TRUE]
    ELSE XFileOn(X, IF avail = 0 THEN Len(X.hosts) + 1 ELSE avail, avail = 0,
                 IF isabs(path) THEN path ELSE join(X.cwd, path), mode, fail)

\* self.file(path, mode) within a call
XFile(X, path, mode, fail) ==
    IF X.exc # "none" THEN X
    ELSE XFileWith(X, AvailableChild(X.children, X.hosts), path, mode, fail)

\* what the close of child h's stream leaves, R being what it did
XClosed(X, R, h) ==
    [X EXCEPT !.hosts[h] = R.host, !.log = R.log, !.exc = R.exc]

\* close() of the stream file() has just returned
XStreamClose(X, fail) ==
    XClosed(X, FTPFileClose([host |-> X.hosts[X.child], log |-> X.log,
                             exc |-> "none"], X.child, fail),
            X.child)

\* the host's attributes after a call that used file()
FinishAll(X, op, path, mode, fail) ==
    /\ current_dir' = X.cwd
    /\ pwd' = X.pwd
    /\ stat_cache' = X.cache
    /\ fs' = X.fs
    /\ children' = X.children
    /\ hosts' = X.hosts
    /\ overlapped' = X.overlapped
    /\ gone' = Gone({p \in DOMAIN fs : Kind(fs, p) # "none"}, X.fs)
    /\ log' = X.log
    /\ lastOp' = Op(op, X.exc, path, mode, X.child, X.spawned, fail)
    /\ returned' = IF X.exc = "none" THEN X.ret ELSE NoValue
    /\ time_shift' = X.shift
    /\ local' = X.local
    /\ UNCHANGED <<closed, session, deleted, now, server, stream>>

\* ------------------------------------------------------------ time shift

Minute == 60

Hour == 60 * Minute

Abs(x) == IF x < 0 THEN 0 - x ELSE x

\* FTPHost.__rounded_time_shift(time_shift)
RoundedTimeShift(shift) ==
    IF shift = 0 THEN 0
    ELSE (shift \div Abs(shift)) * (((Abs(shift) + 30 * Minute) \div Hour) * Hour)

\* the sanity checks left out
AssertNothing(shift) == "none"

\* FTPHost.__assert_valid_time_shift(time_shift): the exception it raises
AssertValidTimeShift(shift) ==
    IF Abs(RoundedTimeShift(shift)) > 24 * Hour THEN "TimeShiftError"
    ELSE IF Abs(shift - RoundedTimeShift(shift)) > 5 * Minute
    THEN "TimeShiftError"
    ELSE "none"

\* synchronize_times that stores the shift as measured
SyncStoreRaw(D) ==
    IF D.exc # "none" THEN D
    ELSE IF AssertValidTimeShift(D.ret - now) # "none"
    THEN Raise(D, AssertValidTimeShift(D.ret - now))
    ELSE [D EXCEPT !.shift = D.ret - now]

\* synchronize_times that stores the rounded shift before it checks it
SyncStoreFirst(D) ==
    IF D.exc # "none" THEN D
    ELSE IF AssertValidTimeShift(D.ret - now) # "none"
    THEN Raise([D EXCEPT !.shift = RoundedTimeShift(D.ret - now)],
               AssertValidTimeShift(D.ret - now))
    ELSE [D EXCEPT !.shift = RoundedTimeShift(D.ret - now)]

\* synchronize_times from `time_shift = server_time - time.time()` on, D
\* being what the two `try` statements left, the server's time in D.ret
SyncStore(D) ==
    IF D.exc # "none" THEN D
    ELSE IF AssertValidTimeShift(D.ret - now) # "none"
    THEN Raise(D, AssertValidTimeShift(D.ret - now))
    ELSE [D EXCEPT !.shift = RoundedTimeShift(D.ret - now)]

\* `except ftp_error.FTPOSError: raise TimeShiftError`
SyncExceptOSError(D) ==
    IF D.exc \in FTPOSErrors THEN Raise(D, "TimeShiftError") ELSE D

\* `self.unlink(helper_file_name)`, C being what getmtime left: the
\* server's time stays in ret
SyncUnlink(C) ==
    IF C.exc # "none" THEN C
    ELSE [RemoveCall(C, Helper) EXCEPT !.ret = C.ret]

\* the second `try` of synchronize_times, B being what the first left
SyncStat(B) ==
    IF B.exc # "none" THEN B
    ELSE SyncExceptOSError(SyncUnlink(PathGetmtime(B, Helper)))

\* `except ftp_error.FTPIOError: raise TimeShiftError`
SyncExceptIOError(B) ==
    IF B.exc = "FTPIOError" THEN Raise(B, "TimeShiftError") ELSE B

\* `file_.close()`, A being what `self.file(helper_file_name, 'w')` left
SyncClose(A, fail) == IF A.exc # "none" THEN A ELSE XStreamClose(A, fail)

\* FTPHost.synchronize_times(); `fail` is the failure injected into file()
\* and `failClose` the one injected into the stream's close()
SynchronizeTimesCall(X, fail, failClose) ==
    SyncStore(SyncStat(SyncExceptIOError(
        SyncClose(XFile(X, Helper, <<"w">>, fail), failClose))))

\* The injected failures must be reached: a fuse longer than the call's
\* commands is the call without failure, as is a failure of the session
\* factory when a child is free, and the stream is closed only once it has
\* been opened.
ReachedAll(X, fail, failClose) ==
    /\ X.fuse = 0
    /\ fail = "spawn" => AvailableChild(children, hosts) = 0
    /\ fail \notin {"none", "target"} => failClose = "none"

\* a call that used file() and left X
ReturnAll(X, op, path, fail, failClose, fused) ==
    /\ ~deleted
    /\ ReachedAll(X, fail, failClose)
    /\ FinishAll(X, op, path, <<fail, failClose>>,
                 IF fused THEN "fuse" ELSE "none")

SynchronizeTimes(fail, failClose, fuse) ==
    ReturnAll(SynchronizeTimesCall(StartAll(fuse), fail, failClose),
              "synchronize_times", EmptyPath, fail, failClose, fuse > 0)

\* FTPHost.set_time_shift(time_shift)
SetTimeShift(shift) ==
    /\ ~deleted
    /\ time_shift' = shift
    /\ log' = <<>>
    /\ lastOp' = Op("set_time_shift", "none", EmptyPath, <<shift>>, 0,
                    FALSE, "none")
    /\ returned' = NoValue
    /\ UNCHANGED <<closed, session, current_dir, pwd, stat_cache, children,
                   hosts, fs, deleted, overlapped, gone, now, server, local,
                   stream>>

\* seconds between two looks at the clock
TickLen == 30

\* time passes
Tick ==
    /\ now < MaxTicks * TickLen
    /\ now' = now + TickLen
    /\ log' = <<>>
    /\ lastOp' = Op("tick", "none", EmptyPath, <<>>, 0, FALSE, "none")
    /\ returned' = NoValue
    /\ UNCHANGED <<closed, session, current_dir, pwd, stat_cache, children,
                   hosts, fs, deleted, overlapped, gone, time_shift, server,
                   local, stream>>

\* ------------------------------------------------------- the with scope
\* `with host: ...`; `body` is the exception the statements of the scope
\* raise, "none" when they end normally.

\* an __exit__ that reports the exception as handled
HostExitTrue(C) == [exc |-> C.exc, ret |-> TRUE]

\* FTPHost.__exit__(exc_type, exc_val, exc_tb), C being what `self.close()`
\* left: the exception it raises and the value it returns
HostExit(C) == [exc |-> C.exc, ret |-> FALSE]

\* the exception that leaves the with statement, E being what __exit__ did:
\* its own, or the scope's unless __exit__ returned a true value
WithRaises(body, E) ==
    IF E.exc # "none" THEN E.exc
    ELSE IF body # "none" /\ ~E.ret THEN body
    ELSE "none"

\* the end of the with statement, C being what close() left
WithEnd(C, body, fail) ==
    /\ CloseReturn(C)
    /\ lastOp' = Op("with", WithRaises(body, HostExit(C)), EmptyPath,
                    <<body, C.exc>>, FailedChild(fail), FALSE, fail.what)
    /\ UNCHANGED deleted

\* `with host:` around statements that end as `body` says
With(body, fail) ==
    /\ ~deleted
    /\ FailApplies(fail)
    /\ WithEnd(HostClose(fail), body, fail)

\* --------------------------------------------------------- text streams
\* The data of a stream opened in text mode: sequences of bytes, of which
\* "\n" and "\r" matter and "a" stands for every other one.

Bytes == {"a", "\n", "\r"}

Texts == UNION {[1..n -> Bytes] : n \in 0..MaxLen}

Min(a, b) == IF a < b THEN a ELSE b

\* a stream read without conversion
Untranslated(text) == text

\* _crlf_to_python_linesep: text.replace('\r', '')
CrlfToPython(text) == SelectSeq(text, LAMBDA b : b # "\r")

\* _python_to_crlf_linesep: text.replace('\n', '\r\n')
RECURSIVE PythonToCrlf(_)
PythonToCrlf(text) ==
    IF text = <<>> THEN <<>>
    ELSE (IF Head(text) = "\n" THEN <<"\r", "\n">> ELSE <<Head(text)>>)
         \o PythonToCrlf(Tail(text))

\* what a read leaves: the data it returns, the bytes left in _fo and the
\* calls of _fo.read it made
ReadResult(data, fo, rounds) == [data |-> data, fo |-> fo, rounds |-> rounds]

\* read(n) without the loop: what the first _fo.read gave, converted
ReadOnce(chunks, fo, wanted_size, rounds) == ReadResult(chunks, fo, rounds)

RECURSIVE ReadLoop(_, _, _, _)
\* one round of the loop: `more_data = self._fo.read(wanted_size -
\* current_size)` takes k bytes, all there are if fewer are left
ReadMore(chunks, fo, wanted_size, rounds, k) ==
    IF k = 0 THEN ReadResult(chunks, fo, rounds + 1)
    ELSE ReadLoop(chunks \o CrlfToPython(SubSeq(fo, 1, k)),
                  SubSeq(fo, k + 1, Len(fo)), wanted_size, rounds + 1)

\* `while current_size < wanted_size`, chunks being the data so far
ReadLoop(chunks, fo, wanted_size, rounds) ==
    IF Len(chunks) >= wanted_size THEN ReadResult(chunks, fo, rounds)
    ELSE ReadMore(chunks, fo, wanted_size, rounds,
                  Min(wanted_size - Len(chunks), Len(fo)))

\* _FTPFile.read(n) in text mode, the first _fo.read taking k bytes
FTPFileReadFrom(fo, n, k) ==
    ReadLoop(CrlfToPython(SubSeq(fo, 1, k)), SubSeq(fo, k + 1, Len(fo)), n, 1)

FTPFileRead(fo, n) == FTPFileReadFrom(fo, n, Min(n, Len(fo)))

\* _FTPFile.read() in text mode
FTPFileReadAll(fo) == ReadResult(CrlfToPython(fo), <<>>, 1)

\* the stream after a call on it
StreamDone(op, args, value, st) ==
    /\ stream' = st
    /\ log' = <<>>
    /\ lastOp' = Op(op, "none", EmptyPath, args, 0, FALSE, "none")
    /\ returned' = value
    /\ UNCHANGED <<closed, session, current_dir, pwd, stat_cache, children,
                   hosts, fs, deleted, overlapped, gone, time_shift, now,
                   server, local>>

\* the caller reads what read left in R
StreamRead(op, args, R) ==
    StreamDone(op, args, R.data,
               [stream EXCEPT !.fo = R.fo, !.got = @ \o R.data,
                              !.rounds = R.rounds])

\* read(n) on the text stream
TextRead(n) == StreamRead("read", <<n>>, FTPFileRead(stream.fo, n))

\* read() on the text stream
TextReadAll == StreamRead("read", <<>>, FTPFileReadAll(stream.fo))

\* _FTPFile.write(data) in text mode, with the caller's text
TextWrite ==
    /\ lastOp.op = "init"
    /\ StreamDone("write", <<>>, NoValue,
                  [stream EXCEPT !.fo = @ \o PythonToCrlf(stream.text)])

\* _FTPFile.writelines(lines) in text mode, the caller's text cut in two
\* after k bytes
TextWritelines(k) ==
    /\ lastOp.op = "init"
    /\ k \in 0..Len(stream.text)
    /\ StreamDone("writelines", <<k>>, NoValue,
                  [stream EXCEPT !.fo =
                      @ \o PythonToCrlf(SubSeq(stream.text, 1, k))
                        \o PythonToCrlf(SubSeq(stream.text, k + 1,
                                               Len(stream.text)))])

\* ------------------------------------------------------------- transfers
\* One local file takes part, the source of the uploads and the target of
\* the downloads.

\* the local file is written by another program
LocalWrite ==
    /\ ~deleted
    /\ local' = LocalFile(TRUE, now)
    /\ log' = <<>>
    /\ lastOp' = Op("local_write", "none", EmptyPath, <<>>, 0, FALSE, "none")
    /\ returned' = NoValue
    /\ UNCHANGED <<closed, session, current_dir, pwd, stat_cache, children,
                   hosts, fs, deleted, overlapped, gone, time_shift, now,
                   server, stream>>

\* FTPHost.__get_modes(mode): the modes of the source and of the target
GetModes(mode) ==
    IF mode = "b" THEN <<(<<"r", "b">>), (<<"w", "b">>)>>
    ELSE <<(<<"r">>), (<<"w">>)>>

\* _RemoteFile.mtime(), G being what getmtime left
RemoteMtime(G) ==
    IF G.exc # "none" THEN G ELSE [G EXCEPT !.ret = G.ret - G.shift]

\* the comparison with `>=`, as the comment above it announces
NewerOrSame(G, source_first, mtime) ==
    IF G.exc # "none" THEN G
    ELSE [G EXCEPT !.ret = IF source_first THEN mtime >= G.ret
                           ELSE G.ret >= mtime]

\* `source_file.mtime() > target_file.mtime()`, G being what the remote
\* file's mtime() left and `mtime` the local file's time; the local file is
\* the source when source_first
Newer(G, source_first, mtime) ==
    IF G.exc # "none" THEN G
    ELSE [G EXCEPT !.ret = IF source_first THEN mtime > G.ret
                           ELSE G.ret > mtime]

\* `condition` of an upload, E being what target_file.exists() left
UploadCondition(E, target) ==
    IF E.exc # "none" THEN E
    ELSE IF ~E.ret THEN [E EXCEPT !.ret = TRUE]
    ELSE IF ~E.local.exists THEN Raise(E, "OSError")
    ELSE Newer(RemoteMtime(PathGetmtime(E, target)), TRUE, E.local.mtime)

\* `condition` of a download
DownloadCondition(X, source) ==
    IF ~X.local.exists THEN [X EXCEPT !.ret = TRUE]
    ELSE Newer(RemoteMtime(PathGetmtime(X, source)), FALSE, X.local.mtime)

\* copyfileobj into the stream file() has just returned: one buffer
XStreamWrite(X) ==
    [X EXCEPT !.fs[X.hosts[X.child].stor] = Stamp([@ EXCEPT !.size = 1]),
              !.log = Append(@, Ev(X.child, "DATA", X.hosts[X.child].stor))]

\* `transfer accomplished`
Transferred(C) == IF C.exc # "none" THEN C ELSE [C EXCEPT !.ret = TRUE]

\* `try: self.copyfileobj(...) finally: target_fobj.close()` of an upload,
\* A being what `target_file.fobj()` left
UploadCopy(A, failClose) ==
    IF A.exc # "none" THEN A ELSE XStreamClose(XStreamWrite(A), failClose)

\* _LocalFile.fobj() of the source of an upload
LocalSource(X) == [X EXCEPT !.local.open = @ + 1]

\* close() of the local file object, whatever A.exc is on its way
LocalClose(A) == [A EXCEPT !.local.open = @ - 1]

\* __copy_file from `source_fobj = source_file.fobj()` on, for an upload
UploadTransfer(X, target, mode, fail, failClose) ==
    IF ~X.local.exists THEN Raise(X, "IOError")
    ELSE Transferred(LocalClose(
             UploadCopy(XFile(LocalSource(X), target, GetModes(mode)[2],
                              fail),
                        failClose)))

\* `target_fobj = target_file.fobj()` of a download: the local target is
\* opened for writing, which `fail` = "target" makes fail
LocalOpened(S, fail) ==
    IF fail = "target" THEN Raise(S, "IOError")
    ELSE [S EXCEPT !.local = [LocalFile(TRUE, now) EXCEPT !.open = 1]]

\* `try: self.copyfileobj(...) finally: target_fobj.close()` of a
\* download, T being what `target_file.fobj()` left
DownloadCopy(T) == IF T.exc # "none" THEN T ELSE LocalClose(T)

\* a `finally` clause that left C, entered while `exc` was on its way
Reraise(C, exc) == IF C.exc # "none" THEN C ELSE Raise(C, exc)

\* a close of the source that is skipped when the `try` block raised
DownloadCloseUnlessRaised(A, failClose) ==
    IF A.exc # "none" THEN A ELSE XStreamClose(A, failClose)

\* `finally: source_fobj.close()` of a download, A being what the `try`
\* block left
DownloadClose(A, failClose) == Reraise(XStreamClose(A, failClose), A.exc)

\* the outer `try` statement of a download, S being what
\* `source_fobj = source_file.fobj()` left
DownloadTry(S, fail, failClose) ==
    IF S.exc # "none" THEN S
    ELSE DownloadClose(DownloadCopy(LocalOpened(S, fail)), failClose)

\* __copy_file from `source_fobj = source_file.fobj()` on, for a download
DownloadTransfer(X, source, mode, fail, failClose) ==
    Transferred(DownloadTry(
        XFile(X, source, GetModes(mode)[1],
              IF fail = "target" THEN "none" ELSE fail),
        fail, failClose))

\* `if not condition: return False` and the rest of __copy_file for an
\* upload, C being what the condition left
UploadIf(C, target, mode, fail, failClose) ==
    IF C.exc # "none" THEN C
    ELSE IF ~C.ret THEN [C EXCEPT !.ret = FALSE]
    ELSE UploadTransfer(C, target, mode, fail, failClose)

DownloadIf(C, source, mode, fail, failClose) ==
    IF C.exc # "none" THEN C
    ELSE IF ~C.ret THEN [C EXCEPT !.ret = FALSE]
    ELSE DownloadTransfer(C, source, mode, fail, failClose)

\* upload and download return nothing
ReturnNone(C) == IF C.exc # "none" THEN C ELSE [C EXCEPT !.ret = NoValue]

\* FTPHost._upload(source, target, mode, conditional)
UploadCall(X, target, mode, conditional, fail, failClose) ==
    IF conditional
    THEN UploadIf(UploadCondition(PathExists(X, target), target),
                  target, mode, fail, failClose)
    ELSE UploadTransfer(X, target, mode, fail, failClose)

\* FTPHost._download(source, target, mode, conditional)
DownloadCall(X, source, mode, conditional, fail, failClose) ==
    IF conditional
    THEN DownloadIf(DownloadCondition(X, source), source, mode, fail,
                    failClose)
    ELSE DownloadTransfer(X, source, mode, fail, failClose)

\* the failure to open the local target has been reached: it is what the
\* call raises, unless the close of the source raised after it
TargetReached(X, failClose) ==
    \/ X.exc = "IOError"
    \/ /\ failClose # "none"
       /\ X.exc = "FTPIOError"
       /\ \E i \in DOMAIN X.log : X.log[i].cmd = "FOCLOSE"

\* a transfer that left X; an injected failure must be reached
TransferReturn(X, op, path, fail, failClose) ==
    /\ fail # "none" => X.child # 0
    /\ fail = "target" => TargetReached(X, failClose)
    /\ failClose # "none" => X.child # 0
    /\ ReturnAll(X, op, path, fail, failClose, FALSE)

\* the name a _RemoteFile keeps: `self._path.abspath(name)`
RemoteName(name) == abspath(current_dir, name)

Upload(target, mode, fail, failClose) ==
    TransferReturn(ReturnNone(UploadCall(StartAll(0), RemoteName(target),
                                         mode, FALSE, fail, failClose)),
                   "upload", target, fail, failClose)

UploadIfNewer(target, mode, fail, failClose) ==
    TransferReturn(UploadCall(StartAll(0), RemoteName(target), mode, TRUE,
                              fail, failClose),
                   "upload_if_newer", target, fail, failClose)

Download(source, mode, fail, failClose) ==
    TransferReturn(ReturnNone(DownloadCall(StartAll(0), RemoteName(source),
                                           mode, FALSE, fail, failClose)),
                   "download", source, fail, failClose)

DownloadIfNewer(source, mode, fail, failClose) ==
    TransferReturn(DownloadCall(StartAll(0), RemoteName(source), mode, TRUE,
                                fail, failClose),
                   "download_if_newer", source, fail, failClose)

\* The server loses the empty directory p without the client's doing:
\* another client of the server removes it.
Vanish(p) ==
    /\ p # Root
    /\ Kind(fs, p) = "dir"
    /\ Entries(fs, p) = {}
    /\ fs' = [fs EXCEPT ![p] = NoNode]
    /\ log' = <<>>
    /\ lastOp' = Op("vanish", "none", p, <<>>, 0, FALSE, "none")
    /\ returned' = NoValue
    /\ UNCHANGED <<closed, session, current_dir, pwd, stat_cache, children,
                   hosts, deleted, overlapped, gone>>
    /\ UNCHANGED timeVars

\* ------------------------------------------------------ what the caller does

RelF == Path(FALSE, <<"f">>)

\* a file in a directory that is never there
FileXF == Path(TRUE, <<"x", "f">>)

FileFails == {"none", "spawn", "cwd", "type", "xfer"}

StreamFails == {"none", "fo", "conn", "resp"}

Fuses == 0..MaxFuse

\* The pool: streams opened and closed, hosts closed and finalized, with a
\* listing now and then that fills the stat cache.
NextPool ==
    \/ \E p \in {FileF, FileXF}, m \in {<<"r">>, <<"w">>, <<"a">>},
          f \in FileFails : Room(MaxHosts) /\ File(p, m, f)
    \/ \E h \in 1..MaxHosts, f \in StreamFails : StreamClose(h, f)
    \/ \E f \in CloseFails : Close(f)
    \/ \E f \in CloseFails : Del(f)
    \/ Listdir(Root, 0)

Spec == Init /\ [][NextPool]_vars

\* The files and directories: streams opened for a path and closed again
\* among the calls that list, make, remove and change what is on the server.
NextFs ==
    \/ \E p \in {FileF, RelF}, m \in {<<"r">>, <<"w">>},
          f \in {"none", "xfer"} : Room(MaxFsHosts) /\ File(p, m, f)
    \/ \E h \in 1..MaxFsHosts : StreamClose(h, "none")
    \/ \E p \in {Root, DirD} : ChdirOp(p)
    \/ Mkdir(DirD, 0)
    \/ \E n \in Fuses : Rmdir(DirD, n)
    \/ \E n \in Fuses : Remove(FileF, n)
    \/ \E n \in Fuses : Chmod(DirD, n)
    \/ Rmdir(Root, 0)
    \/ Remove(DirD, 0)
    \/ Chmod(FileF, 0)
    \/ \E p \in {Root, DirD} : Listdir(p, 0)

SpecFs == Init /\ [][NextFs]_vars

RelD == Path(FALSE, <<"d">>)

DotDot == Path(FALSE, <<"..">>)

\* The directory tree: the caller walks it with absolute and relative paths,
\* fills and empties a directory and removes it, while the server may lose
\* the directory behind the client's back.
NextDir ==
    \/ \E p \in {FileF, RelF} : Room(MaxFsHosts) /\ File(p, <<"w">>, "none")
    \/ \E h \in 1..MaxFsHosts : StreamClose(h, "none")
    \/ \E p \in {Root, DirD, RelD, DotDot} : ChdirOp(p)
    \/ Mkdir(DirD, 0)
    \/ \E p \in {DirD, RelD} : Rmdir(p, 0)
    \/ \E p \in {FileF, FileDF, DirD} : Remove(p, 0)
    \/ \E p \in {FileF, DirD} : Chmod(p, 0)
    \/ \E p \in {Root, DirD} : Listdir(p, 0)
    \/ \E p \in {FileF, DirD} : Exists(p, 0)
    \/ \E st \in {<<SpaceDX, SpaceDY>>, <<SpaceDX, DirD>>} :
          Rename(st[1], st[2], 0)
    \/ Vanish(DirD)

SpecDir == Init /\ [][NextDir]_vars

\* mode strings a caller may pass: the four accepted ones, append mode, the
\* letters of 'rb' the other way round, and ''
Modes == ValidModes \cup {<<"a">>, <<"b", "r">>, <<>>}

RelXF == Path(FALSE, <<"x", "f">>)

\* Opening streams: file() with every mode, for paths whose directory is
\* there or not, from either directory, with failures of the child's CWD and
\* of TYPE.
NextOpen ==
    \/ \E p \in {RelF, FileXF, RelXF}, m \in Modes,
          f \in {"none", "cwd", "type"} : Room(MaxFsHosts) /\ File(p, m, f)
    \/ \E h \in 1..MaxFsHosts : StreamClose(h, "none")
    \/ \E p \in {Root, DirD} : ChdirOp(p)

SpecOpen == Init /\ [][NextOpen]_vars

\* a directory below the name of the file
FileFX == Path(TRUE, <<"f", "x">>)

\* Directory chains: makedirs on chains that exist, exist in part or have a
\* file in the way, among calls that make and remove the files and
\* directories and list them.
NextMk ==
    \/ \E p \in {DirD, RelD, SpaceDX, FileFX} : Makedirs(p, 0)
    \/ Room(MaxFsHosts) /\ File(FileF, <<"w">>, "none")
    \/ \E h \in 1..MaxFsHosts : StreamClose(h, "none")
    \/ \E p \in {Root, DirD} : ChdirOp(p)
    \/ \E p \in {DirD, SpaceDX, SpaceD, FileF} : Rmdir(p, 0)
    \/ Remove(FileF, 0)
    \/ Listdir(Root, 0)

SpecMk == Init /\ [][NextMk]_vars

\* The working directory: every command that changes directory to do its
\* work, with a failure injected at each of its commands in turn, among
\* changes of directory by the caller.
NextCwd ==
    \/ \E p \in {Root, DirD, SpaceDX} : ChdirOp(p)
    \/ Mkdir(SpaceD, 0)
    \/ \E n \in Fuses : Mkdir(SpaceDX, n)
    \/ \E p \in {DirD, SpaceDX}, n \in Fuses : Rmdir(p, n)
    \/ \E n \in Fuses : Remove(FileDF, n)
    \/ \E n \in Fuses : Chmod(DirD, n)
    \/ \E n \in Fuses : Listdir(Root, n)
    \/ \E st \in {<<SpaceDX, SpaceDY>>, <<SpaceDX, DirD>>}, n \in Fuses :
          Rename(st[1], st[2], n)

SpecCwd == Init /\ [][NextCwd]_vars

\* Metadata of a file under transfer: a file is opened, written and closed
\* while the parent lists, stats and removes.
NextStat ==
    \/ \E m \in {<<"r">>, <<"w">>} : Room(MaxFsHosts) /\ File(FileF, m, "none")
    \/ \E h \in 1..MaxFsHosts : StreamWrite(h)
    \/ \E h \in 1..MaxFsHosts : StreamClose(h, "none")
    \/ Listdir(Root, 0)
    \/ Lstat(FileF, 0)
    \/ Getsize(FileF, 0)
    \/ Remove(FileF, 0)

SpecStat == Init /\ [][NextStat]_vars

\* Trees: directories filled with files, one of them a file the server will
\* not delete, and with a directory, and removed as a whole with each choice
\* of error handling, from inside the tree and from outside.
NextRm ==
    \/ \E p \in {DirD, RelD, SpaceD}, ignore_errors \in BOOLEAN,
          onerror \in {"None", "onerror"} : Rmtree(p, ignore_errors, onerror)
    \/ Mkdir(DirD, 0)
    \/ Makedirs(SpaceDX, 0)
    \/ \E p \in {Root, DirD} : ChdirOp(p)

\* the trees the server may hold at login: /d with or without its two
\* files, "/a b" with or without the directory x
Trees ==
    {[p \in FsPaths |->
         IF p \in {Root, DirD} \cup dirs THEN Node("dir", 0)
         ELSE IF p \in files THEN Node("file", 0)
         ELSE NoNode] :
     files \in SUBSET {FileDF, FileDP},
     dirs \in {{}, {SpaceD}, {SpaceD, SpaceDX}}}

InitRm == \E t \in Trees : InitOn(t)

SpecRm == InitRm /\ [][NextRm]_vars

\* Walks: the tree is walked from its root and from a directory, top-down
\* and bottom-up, from either working directory.
NextWalk ==
    \/ \E top \in {Root, DirD, RelD}, topdown \in BOOLEAN : Walk(top, topdown)
    \/ \E p \in {Root, DirD} : ChdirOp(p)

\* what the link /d/l may be: a link to its own directory, to a directory
\* elsewhere, to a file beside it, or to itself
TargetsDL ==
    {Path(FALSE, <<".">>), SpaceD, Path(FALSE, <<"f">>), Path(FALSE, <<"l">>)}

\* what the link /l may be: a link to /d, or to the link /d/l
TargetsL == {Path(FALSE, <<"d">>), Path(FALSE, <<"d", "l">>)}

\* the trees with links the server may hold at login
LinkedTrees ==
    {[p \in FsPaths |->
         IF p \in {Root, DirD} \cup dirs THEN Node("dir", 0)
         ELSE IF p \in files THEN Node("file", 0)
         ELSE IF p = LinkDL /\ dl # EmptyPath THEN Link(dl)
         ELSE IF p = LinkL /\ l # EmptyPath THEN Link(l)
         ELSE NoNode] :
     files \in SUBSET {FileDF},
     dirs \in {{}, {SpaceD}, {SpaceD, SpaceDX}},
     dl \in TargetsDL \cup {EmptyPath},
     l \in TargetsL \cup {EmptyPath}}

InitWalk == \E t \in LinkedTrees : InitOn(t)

SpecWalk == InitWalk /\ [][NextWalk]_vars

\* how far the server's clock may be ahead of the client's: not at all, a
\* few minutes, hours with and without minutes on top, half an hour, and a
\* day and more
Skews ==
    {0, 299, 30 * Minute, 4 * Hour, 4 * Hour + 5 * Minute,
     4 * Hour + 5 * Minute + 1, 0 - 4 * Hour - 5 * Minute,
     24 * Hour + 5 * Minute, 24 * Hour + 30 * Minute, 25 * Hour,
     0 - 25 * Hour}

\* the commands of synchronize_times on the primary session that fail: the
\* LIST of getmtime and the DELE of unlink
SyncFuses == {0, 3, 7}

\* Clocks: the time shift is measured on servers whose clocks differ from
\* the client's and whose listings show seconds or minutes, from a
\* directory the helper file can be written in and from one it cannot, with
\* failures of file(), of the stream's close() and of the primary session,
\* and is set by the caller.
NextSync ==
    \/ \E fail \in FileFails, failClose \in StreamFails, fuse \in SyncFuses :
          /\ Room(MaxFsHosts)
          /\ (fail = "none" /\ failClose = "none") \/ fuse = 0
          /\ SynchronizeTimes(fail, failClose, fuse)
    \/ SetTimeShift(30 * Minute)
    \/ \E p \in {Root, DirD} : ChdirOp(p)

\* the servers of these runs: listings that show seconds, and listings that
\* show minutes read half a minute after the full minute
SyncServers ==
    {<<Server(skew, 1), 0>> : skew \in Skews}
    \cup {<<Server(skew, Minute), TickLen>> :
             skew \in {0, 4 * Hour, 4 * Hour + 5 * Minute,
                       0 - 4 * Hour - 5 * Minute}}

InitSync ==
    \E sc \in SyncServers :
        InitWith([p \in FsPaths |-> IF p = Root \/ p = DirD
                                    THEN Node("dir", 0) ELSE NoNode],
                 sc[1], sc[2])

SpecSync == InitSync /\ [][NextSync]_vars

\* Transfers of one file between the client and servers that are on the
\* client's time or four hours ahead and list seconds or minutes, while
\* time passes, the local file is rewritten and the shift is measured.
NextXfer ==
    \/ \E mode \in {"", "b"}, fail \in {"none", "xfer"},
          failClose \in {"none", "resp"} :
          /\ Room(MaxFsHosts)
          /\ (fail = "none" /\ failClose = "none") \/ mode = "b"
          /\ Upload(RelF, mode, fail, failClose)
    \/ \E mode \in {"", "b"}, fail \in {"none", "xfer"} :
          /\ Room(MaxFsHosts)
          /\ fail = "none" \/ mode = "b"
          /\ UploadIfNewer(RelF, mode, fail, "none")
    \/ \E mode \in {"", "b"}, fail \in {"none", "xfer", "target"},
          failClose \in {"none", "resp"} :
          /\ Room(MaxFsHosts)
          /\ (fail = "none" /\ failClose = "none") \/ mode = "b"
          /\ Download(RelF, mode, fail, failClose)
    \/ \E mode \in {"", "b"}, fail \in {"none", "xfer", "target"} :
          /\ Room(MaxFsHosts)
          /\ fail = "none" \/ mode = "b"
          /\ DownloadIfNewer(RelF, mode, fail, "none")
    \/ LocalWrite
    \/ Tick
    \/ /\ Room(MaxFsHosts)
       /\ SynchronizeTimes("none", "none", 0)

XferServers ==
    {Server(skew, precision) : skew \in {0, 4 * Hour},
                               precision \in {1, Minute}}

InitXfer ==
    \E srv \in XferServers, files \in SUBSET {FileF} :
        InitWith([p \in FsPaths |-> IF p = Root THEN Node("dir", 0)
                                    ELSE IF p \in files THEN Node("file", 1)
                                    ELSE NoNode],
                 srv, 0)

SpecXfer == InitXfer /\ [][NextXfer]_vars

EmptyTree == [p \in FsPaths |-> IF p = Root THEN Node("dir", 0) ELSE NoNode]

\* Text round trips: a text is written to a stream as a whole or in two
\* lines, and what was sent is read back in one piece.
NextText ==
    \/ TextWrite
    \/ \E k \in 0..MaxLen : TextWritelines(k)
    \/ lastOp.op \in {"write", "writelines"} /\ TextReadAll

InitText ==
    \E s \in Texts :
        InitAll(EmptyTree, Server(0, 1), 0, Stream(s, <<>>, <<>>, 0))

SpecText == InitText /\ [][NextText]_vars

\* Sized reads: a stream of any bytes is read in pieces of up to
\* MaxLen + 1 bytes until a read returns nothing.
NextRead ==
    \E n \in 0..(MaxLen + 1) :
        /\ lastOp.op = "read" => returned # <<>>
        /\ TextRead(n)

InitRead ==
    \E raw \in Texts :
        InitAll(EmptyTree, Server(0, 1), 0, Stream(<<>>, raw, <<>>, 0))

SpecRead == InitRead /\ [][NextRead]_vars

RelL == Path(FALSE, <<"l">>)

\* the trees in which /l and /d/l point at each other
CyclicTrees ==
    {[p \in FsPaths |->
         IF p \in {Root, DirD} THEN Node("dir", 0)
         ELSE IF p \in files THEN Node("file", 0)
         ELSE IF p = LinkDL THEN Link(Path(FALSE, <<"..", "l">>))
         ELSE IF p = LinkL THEN Link(l)
         ELSE NoNode] :
     files \in SUBSET {FileDF}, l \in TargetsL}

\* Links: stat and lstat of links, files and directories, by absolute and
\* relative paths from the root and from /d, on trees whose links lead to
\* files, to directories, to other links, to nothing, to themselves and to
\* each other.
NextLinks ==
    \/ \E p \in {LinkL, LinkDL, RelL, FileDF, DirD} : Stat(p, 0)
    \/ \E p \in {LinkL, LinkDL} : Lstat(p, 0)
    \/ \E p \in {Root, DirD} : ChdirOp(p)

InitLinks == \E t \in LinkedTrees \cup CyclicTrees : InitOn(t)

SpecLinks == InitLinks /\ [][NextLinks]_vars

\* Scopes: streams are opened and closed, and the host is left through a
\* with statement whose statements end normally or raise, or is closed by
\* hand, with every failure close() can meet.
NextWith ==
    \/ \E p \in {FileF, FileXF}, m \in {<<"r">>, <<"w">>},
          f \in {"none", "cwd"} : Room(MaxHosts) /\ File(p, m, f)
    \/ \E h \in 1..MaxHosts, f \in StreamFails : StreamClose(h, f)
    \/ \E body \in {"none", "ValueError"}, f \in CloseFails : With(body, f)
    \/ \E f \in CloseFails : Close(f)

SpecWith == Init /\ [][NextWith]_vars

\* Renaming: names of /d and of the directory with a blank in its name are
\* renamed to and fro among the calls that ask for them and list their
\* directories.
NextRename ==
    \/ \E st \in {<<FileDF, FileDP>>, <<FileDP, FileDF>>,
                  <<SpaceDX, SpaceDY>>, <<SpaceDY, SpaceDX>>} :
          Rename(st[1], st[2], 0)
    \/ \E p \in {FileDF, FileDP, SpaceDX, SpaceDY} : Exists(p, 0)
    \/ \E p \in {FileDF, FileDP, SpaceDX, SpaceDY} : Lstat(p, 0)
    \/ \E p \in {DirD, SpaceD} : Listdir(p, 0)

InitRename == \E t \in Trees : InitOn(t)

SpecRename == InitRename /\ [][NextRename]_vars

\* ------------------------------------------------------------ properties

Pooled == {children[k] : k \in 1..Len(children)}

TransferCmds == {"CWD", "TYPE", "STOR", "RETR"}

MutatingCmds == {"RMD", "DELE", "SITE CHMOD"}

Positions(cmds) == {i \in DOMAIN log : log[i].cmd \in cmds}

\* directory p is directory q or lies below it
IsUnder(p, q) ==
    /\ Len(q.parts) <= Len(p.parts)
    /\ SubSeq(p.parts, 1, Len(q.parts)) = q.parts

\* what the stat service reports for the absolute path p: the kind of the
\* cached record, or of the server's entry when nothing is cached
Reported(p) ==
    IF p \in DOMAIN stat_cache THEN stat_cache[p].kind ELSE Kind(fs, p)

HasCmd(l, cmd) == \E i \in DOMAIN l : l[i].cmd = cmd

\* the path file() hands to the child and to the cache
EffectivePath(path) == IF isabs(path) THEN path ELSE join(current_dir, path)

\* C1: no two open remote file streams use the same session: a session never
\* has more than one transfer in flight, its stream is open exactly while a
\* transfer is in flight, file() never selects a child whose stream is open,
\* and it issues no CWD, TYPE, STOR or RETR on a session with a transfer in
\* flight.
C1_OneStreamPerSession ==
    /\ [](\A h \in DOMAIN hosts :
             /\ hosts[h].inflight <= 1
             /\ hosts[h].file_closed <=> hosts[h].inflight = 0)
    /\ [][lastOp'.op = "file" =>
            /\ lastOp'.child \in DOMAIN hosts =>
                  hosts[lastOp'.child].file_closed
            /\ \A i \in DOMAIN log' :
                  (log'[i].cmd \in TransferCmds /\ log'[i].sess \in DOMAIN hosts)
                     => hosts[log'[i].sess].inflight = 0]_vars

\* file() has reused a closed child while another child's stream is open
C1_Witness ==
    /\ lastOp.op = "file"
    /\ lastOp.exc = "none"
    /\ ~lastOp.spawned
    /\ \E h \in Pooled : h # lastOp.child /\ ~hosts[h].file_closed

\* C2: file() spawns a child session exactly when no child of the pool has a
\* closed stream; otherwise it reuses the first child, in pool order, whose
\* stream is closed, and makes no session.  Hence, as long as no file() call
\* is made while a pooled stream is open, the pool holds at most one child.
C2_SpawnIffNoneClosed ==
    /\ [](~overlapped => Len(children) <= 1)
    /\ [][lastOp'.op = "file" =>
            LET free == {k \in 1..Len(children) :
                            hosts[children[k]].file_closed}
            IN  /\ lastOp'.spawned <=> free = {}
                /\ ~lastOp'.spawned =>
                      /\ \E k \in free : /\ lastOp'.child = children[k]
                                         /\ \A j \in free : k <= j
                      /\ children' = children
                      /\ Len(hosts') = Len(hosts)]_vars

\* file() has passed over a busy first child and reused the second
C2_Witness ==
    /\ lastOp.op = "file"
    /\ ~lastOp.spawned
    /\ Len(children) >= 2
    /\ lastOp.child = children[2]
    /\ ~hosts[children[1]].file_closed

\* C3 as claimed: every child in the pool has opened at least one transfer,
\* and a child that has served a transfer leaves the pool only when close()
\* empties it.
C3_PooledChildHasServed ==
    /\ [](\A h \in Pooled : hosts[h].served)
    /\ [][\A h \in Pooled : hosts[h].served =>
             \/ h \in {children'[k] : k \in 1..Len(children')}
             \/ lastOp'.op \in {"close", "del"}]_vars

\* C3, amended: a child is in the pool from the file() call that made it,
\* whether or not that call got as far as opening a transfer, until a
\* close() of the parent empties the pool: the pool changes only by file()
\* appending the child it has just made and by close() emptying it.
C3_PoolMembership ==
    /\ [](\A j, k \in 1..Len(children) :
             /\ children[k] \in DOMAIN hosts
             /\ children[j] = children[k] => j = k)
    /\ [][/\ (lastOp'.op = "file" /\ lastOp'.spawned /\ lastOp'.child # 0)
               => children' = Append(children, lastOp'.child)
          /\ (lastOp'.op = "file" /\ ~(lastOp'.spawned /\ lastOp'.child # 0))
               => children' = children
          /\ lastOp'.op \notin {"file", "close", "del"}
               => children' = children
          /\ lastOp'.op \in {"close", "del"}
               => \/ children' = children
                  \/ children' = <<>> /\ closed']_vars

\* a pooled child that has never opened a transfer: the call that made it
\* failed after the child had been appended
C3_Witness ==
    /\ lastOp.op = "file"
    /\ lastOp.spawned
    /\ lastOp.exc = "FTPIOError"
    /\ lastOp.child \in Pooled
    /\ ~hosts[lastOp.child].served

\* C4: after close() on the parent has returned, the handle is closed, the
\* pool is empty, and every child that was in the pool, and its stream, is
\* closed.
C4_CloseClosesAll ==
    [][(lastOp'.op = "close" /\ lastOp'.exc = "none") =>
          /\ closed'
          /\ children' = <<>>
          /\ \A h \in Pooled : hosts'[h].closed /\ hosts'[h].file_closed]_vars

C6_CloseIdempotent ==
    [][(closed /\ lastOp'.op = "close") =>
          /\ log' = <<>>
          /\ lastOp'.exc = "none"
          /\ UNCHANGED <<closed, session, current_dir, pwd, stat_cache,
                         children, hosts, fs, deleted>>]_vars

\* close() has returned at once on a closed handle that has a child again
C6_Witness ==
    /\ closed
    /\ lastOp.op = "close"
    /\ log = <<>>
    /\ children # <<>>

\* C7 as claimed: no failure propagates to the caller of close().
C7_CloseSwallows == lastOp.op = "close" => lastOp.exc = "none"

\* C7, amended: destruction (__del__) swallows every failure of the close it
\* runs; close() itself lets the failure of a child's stream, of a child's
\* session or of the handle's own session propagate to its caller.
C7_DelSwallowsCloseRaises ==
    /\ lastOp.op = "del" => lastOp.exc = "none"
    /\ (lastOp.op = "close" /\ lastOp.fail # "none") => lastOp.exc # "none"

\* a failure met while the handle was finalized
C7_Witness ==
    /\ lastOp.op = "del"
    /\ lastOp.fail # "none"
    /\ lastOp.exc = "none"

\* C8: once close() has been called on an open stream, returned or raised,
\* the stream is closed, and a further close() issues no socket close and no
\* voidresp.
C8_StreamCloseIdempotent ==
    /\ [](lastOp.op = "stream_close" => hosts[lastOp.child].file_closed)
    /\ [][(/\ lastOp.op = "stream_close"
           /\ lastOp'.op = "stream_close"
           /\ lastOp'.child = lastOp.child) => log' = <<>>]_vars

\* C9 as claimed: file(P, 'w') invalidates the cache entry of P before STOR
\* is issued.
C9_InvalidateBeforeStor ==
    (lastOp.op = "file" /\ HasChar(lastOp.mode, "w")) =>
        \A j \in Positions({"STOR"}) :
            \E i \in Positions({"invalidate"}) : i < j

\* C9, amended: file(P, 'w') that returns a stream has invalidated the cache
\* entry of the path after STOR was issued on the child's session, as the
\* last thing it did; file(P, 'w') that raises has invalidated nothing.
C9_InvalidateAfterStor ==
    (lastOp.op = "file" /\ HasChar(lastOp.mode, "w")) =>
        IF lastOp.exc = "none"
        THEN /\ Positions({"invalidate"}) = {Len(log)}
             /\ log[Len(log)] = InvalidateEv(EffectivePath(lastOp.path))
             /\ Positions({"STOR"}) = {Len(log) - 1}
             /\ log[Len(log) - 1].sess = lastOp.child
             /\ normpath(EffectivePath(lastOp.path)) \notin DOMAIN stat_cache
        ELSE Positions({"invalidate"}) = {}

\* a stream opened for writing on a host whose cache holds entries
C9_Witness ==
    /\ lastOp.op = "file"
    /\ HasChar(lastOp.mode, "w")
    /\ lastOp.exc = "none"
    /\ DOMAIN stat_cache # {}

\* C10 as claimed: rmdir(P), remove(P) and chmod(P, m) invalidate the cache
\* entry of P before RMD, DELE or SITE CHMOD is issued.
C10_InvalidateBeforeCommand ==
    lastOp.op \in {"rmdir", "remove", "chmod"} =>
        \A j \in Positions(MutatingCmds) :
            \E i \in Positions({"invalidate"}) : i < j

\* C10, amended: rmdir(P), remove(P) and chmod(P, m) that return have
\* invalidated the cache entry of P after RMD, DELE or SITE CHMOD succeeded
\* and the directory was restored, as the last thing they did; a call that
\* raises has invalidated nothing.
C10_InvalidateAfterCommand ==
    lastOp.op \in {"rmdir", "remove", "chmod"} =>
        IF lastOp.exc = "none"
        THEN /\ Positions({"invalidate"}) = {Len(log)}
             /\ log[Len(log)] =
                   InvalidateEv(abspath(current_dir, lastOp.path))
             /\ Positions(MutatingCmds) = {Len(log) - 2}
             /\ abspath(current_dir, lastOp.path) \notin DOMAIN stat_cache
        ELSE Positions({"invalidate"}) = {}

\* a directory removed while the cache held entries of other paths
C10_Witness ==
    /\ lastOp.op = "rmdir"
    /\ lastOp.exc = "none"
    /\ DOMAIN stat_cache # {}

\* C11: once a stream opened for writing on P has been written and closed,
\* getsize(P) on the parent returns the size the server holds for P, whatever
\* metadata calls were made on the parent while the stream was open.
C11_GetsizeReportsWritten ==
    (/\ lastOp.op = "getsize"
     /\ lastOp.exc = "none"
     /\ \A h \in DOMAIN hosts : hosts[h].file_closed)
        => returned = Size(fs, abspath(current_dir, lastOp.path))

\* C12: a path that rmdir or remove has removed, the call having returned, is
\* not on the server and has no cache entry until something creates it again;
\* meanwhile exists(P) returns False and no listdir returns P.
C12_RemovedStaysAbsent ==
    /\ \A p \in gone : Kind(fs, p) = "none" /\ p \notin DOMAIN stat_cache
    /\ (lastOp.op = "exists" /\ lastOp.exc = "none"
            /\ abspath(current_dir, lastOp.path) \in gone)
          => returned = FALSE
    /\ (lastOp.op = "listdir" /\ lastOp.exc = "none")
          => returned \cap gone = {}

\* exists() has answered for a removed path while the cache held the record
\* of another path
C12_Witness ==
    /\ lastOp.op = "exists"
    /\ lastOp.exc = "none"
    /\ abspath(current_dir, lastOp.path) \in gone
    /\ returned = FALSE
    /\ DOMAIN stat_cache # {}

RobustOps == {"mkdir", "rmdir", "remove", "chmod", "listdir", "rename"}

\* the last command of the call was a CWD back to directory d
LastIsCwdTo(l, d) ==
    /\ l # <<>>
    /\ l[Len(l)].cmd = "CWD"
    /\ l[Len(l)].arg = d

\* C15 (as claimed): after each of these calls, returned or raised, the
\* current directory and the session's directory are what they were.
C15_AlwaysRestored ==
    [][lastOp'.op \in RobustOps
          => (current_dir' = current_dir /\ pwd' = pwd)]_vars

\* C15 (amended): after each of these calls the current directory and the
\* session's directory are what they were, unless the call raised because
\* its last command, the CWD back to the original directory, failed; a call
\* that returns has always restored both, and the two always agree.
C15_RestoredUnlessRestoreFails ==
    [][lastOp'.op \in RobustOps =>
          /\ \/ current_dir' = current_dir /\ pwd' = pwd
             \/ /\ lastOp'.exc \in {"PermanentError", "TemporaryError"}
                /\ LastIsCwdTo(log', current_dir)
          /\ lastOp'.exc = "none" => (current_dir' = current_dir /\ pwd' = pwd)
          /\ current_dir' = pwd']_vars

\* rename on the whitespace path has returned after changing into the
\* directory of the two names and back
C15_Witness ==
    /\ lastOp.op = "rename"
    /\ lastOp.exc = "none"
    /\ HasCmd(log, "RNTO")
    /\ LastIsCwdTo(log, current_dir)
    /\ current_dir = DirD

\* the commands the calls of RobustOps exist to send
WorkCmds == {"MKD", "RMD", "DELE", "SITE CHMOD", "LIST", "RNFR"}

\* C16 (as claimed): when the current directory cannot be entered, each of
\* these calls raises InaccessibleLoginDirError.
C16_AlwaysInaccessibleError ==
    [][(lastOp'.op \in RobustOps /\ Kind(fs, current_dir) # "dir")
          => lastOp'.exc = "InaccessibleLoginDirError"]_vars

\* C16 (amended): when the current directory cannot be entered, each of these
\* calls raises without sending MKD, RMD, DELE, SITE CHMOD, LIST or RNFR and
\* without changing the current directory or the server; what it raises is
\* InaccessibleLoginDirError, except for remove(P) on a path the stat cache
\* reports as a directory, which raises PermanentError before any command is
\* sent.
C16_InaccessibleLoginDir ==
    [][(lastOp'.op \in RobustOps /\ Kind(fs, current_dir) # "dir") =>
          /\ \/ lastOp'.exc = "InaccessibleLoginDirError"
             \/ /\ lastOp'.op = "remove"
                /\ abspath(current_dir, lastOp'.path) \in DOMAIN stat_cache
                /\ Reported(abspath(current_dir, lastOp'.path)) = "dir"
                /\ lastOp'.exc = "PermanentError"
                /\ log' = <<>>
          /\ \A i \in DOMAIN log' : log'[i].cmd \notin WorkCmds
          /\ current_dir' = current_dir
          /\ fs' = fs]_vars

\* rename has raised InaccessibleLoginDirError in a directory that is gone
C16_Witness ==
    /\ lastOp.op = "rename"
    /\ lastOp.exc = "InaccessibleLoginDirError"
    /\ Kind(fs, current_dir) # "dir"
    /\ log = <<Ev(0, "CWD", current_dir)>>

\* C17: after chdir(P) returns, the current directory is
\* normpath(join(previous current directory, P)); if chdir(P) raises, the
\* current directory is what it was.
C17_ChdirSetsCwd ==
    [][lastOp'.op = "chdir" =>
          current_dir' = IF lastOp'.exc = "none"
                         THEN normpath(join(current_dir, lastOp'.path))
                         ELSE current_dir]_vars

\* chdir('..') has returned in the root directory
C17_Witness ==
    /\ lastOp.op = "chdir"
    /\ lastOp.exc = "none"
    /\ lastOp.path = DotDot
    /\ current_dir = Root
    /\ pwd = Root

\* C18: file(path, mode) with a mode other than 'r', 'rb', 'w', 'wb' raises
\* and sends neither TYPE nor STOR/RETR, and what it raises is FTPIOError
\* unless the child's CWD failed first; with one of the four modes it gets as
\* far as TYPE whenever the child has entered the directory of the path.
C18_ModesAccepted ==
    lastOp.op = "file" =>
        /\ lastOp.mode \notin ValidModes =>
              /\ lastOp.exc # "none"
              /\ lastOp.fail # "cwd" => lastOp.exc = "FTPIOError"
              /\ \A i \in DOMAIN log :
                    log[i].cmd \notin {"TYPE", "STOR", "RETR"}
              /\ lastOp.child # 0 => hosts[lastOp.child].file_closed
        /\ (/\ lastOp.mode \in ValidModes
            /\ lastOp.fail # "cwd"
            /\ Kind(fs, split(normpath(EffectivePath(lastOp.path))).head)
                  = "dir") => HasCmd(log, "TYPE")

\* file() has refused the mode 'br' on a child it had just spawned
C18_Witness ==
    /\ lastOp.op = "file"
    /\ lastOp.mode = <<"b", "r">>
    /\ lastOp.exc = "FTPIOError"
    /\ lastOp.spawned
    /\ lastOp.fail = "none"
    /\ Kind(fs, split(normpath(EffectivePath(lastOp.path))).head) = "dir"

\* C19: when the child's chdir into the directory of the path fails with
\* PermanentError, file() raises FTPIOError, opens no stream and leaves the
\* parent's current directory (and its session's) as they were.
C19_ChdirFailureIsIOError ==
    [][(/\ lastOp'.op = "file"
        /\ lastOp'.fail = "none"
        /\ Kind(fs, split(normpath(EffectivePath(lastOp'.path))).head) # "dir")
          => /\ lastOp'.exc = "FTPIOError"
             /\ \A i \in DOMAIN log' :
                   log'[i].cmd \notin {"TYPE", "STOR", "RETR"}
             /\ log'[Len(log')].cmd = "CWD"
             /\ hosts'[lastOp'.child].file_closed
             /\ current_dir' = current_dir
             /\ pwd' = pwd
             /\ fs' = fs]_vars

\* file('x/f', 'w') called in /d has raised FTPIOError after the child's CWD
C19_Witness ==
    /\ lastOp.op = "file"
    /\ lastOp.exc = "FTPIOError"
    /\ lastOp.fail = "none"
    /\ lastOp.path = RelXF
    /\ lastOp.mode = <<"w">>
    /\ current_dir = DirD
    /\ log[Len(log)] = Ev(lastOp.child, "CWD", Path(TRUE, <<"d", "x">>))

\* the MKD commands of a call, in the order they were sent
Mkds(l) == SelectSeq(l, LAMBDA e : e.cmd = "MKD")

\* C20: makedirs(P) sends MKD for the prefixes of abspath(P) from the
\* shortest on, each in the directory of the prefix before it; it goes on past
\* a prefix only when that prefix is a directory afterwards; it returns when
\* every prefix is a directory, and raises PermanentError at the first prefix
\* whose MKD failed and which is not a directory; on a chain that exists
\* already it returns and leaves the server as it was.
C20_Makedirs ==
    [][lastOp'.op = "makedirs" =>
          LET P == abspath(current_dir, lastOp'.path)
              mkds == Mkds(log')
              m == Len(mkds)
          IN  /\ m \in 1..Len(P.parts)
              /\ \A i \in 1..m : mkds[i].arg = Path(FALSE, <<P.parts[i]>>)
              /\ \A i \in 1..(m - 1) :
                    Kind(fs', NextDirectory(P, i)) = "dir"
              /\ lastOp'.exc \in {"none", "PermanentError"}
              /\ lastOp'.exc = "none" <=>
                    (m = Len(P.parts) /\ Kind(fs', P) = "dir")
              /\ lastOp'.exc = "PermanentError" =>
                    /\ Kind(fs, NextDirectory(P, m)) # "none"
                       \/ NextDirectory(P, m) \notin DOMAIN fs
                    /\ Kind(fs', NextDirectory(P, m)) # "dir"
              /\ \A q \in DOMAIN fs :
                    fs'[q] # fs[q] =>
                        /\ \E i \in 1..m : q = NextDirectory(P, i)
                        /\ fs[q] = NoNode
                        /\ fs'[q] = Node("dir", 0)
              /\ (\A i \in 1..Len(P.parts) :
                      Kind(fs, NextDirectory(P, i)) = "dir")
                    => (lastOp'.exc = "none" /\ fs' = fs)]_vars

\* makedirs has returned after an MKD that the server refused for a
\* directory that was there and an MKD that made the next one
C20_Witness ==
    /\ lastOp.op = "makedirs"
    /\ lastOp.exc = "none"
    /\ lastOp.path = SpaceDX
    /\ Len(Mkds(log)) = 2
    /\ HasCmd(log, "LIST")
    /\ Kind(fs, SpaceDX) = "dir"


\* the calls of the caller's handler in the events l, in order
Onerrs(l) ==
    LET IsCall(e) == e.cmd = "onerror"
        calls == SelectSeq(l, IsCall)
    IN  [i \in DOMAIN calls |-> calls[i].arg]

\* C21: rmtree(path, ignore_errors, onerror).  An operation of the walk fails
\* with
\* PermanentError when path is no directory (listdir and rmdir of path), for
\* a file the server will not delete (its remove and the rmdir of path) and
\* when the working directory lies in the tree (the rmdir of path).  With
\* ignore_errors true every such error is swallowed, whether or not onerror
\* is given: nothing is raised and the handler is never called.  With
\* ignore_errors false and onerror None the first error is raised to the
\* caller.  Otherwise each error is passed to onerror with the failed
\* operation and its path, in the order of the walk, and nothing is raised.
\* Where errors do not stop the walk, everything below path that can be
\* deleted is deleted.  With ignore_errors true rmtree never raises
\* PermanentError.
C21_RmtreeErrors ==
    [][lastOp'.op = "rmtree" =>
          LET path == lastOp'.path
              P == abspath(current_dir, path)
              ignore_errors == lastOp'.mode[1] = "ignore_errors"
              onerror == lastOp'.mode[2]
              notDir == Kind(fs, P) # "dir"
              stuck == {q \in Protected :
                           Kind(fs, q) = "file" /\ split(q).head = P}
              inside == IsUnder(pwd, P)
              failure == notDir \/ stuck # {} \/ inside
              Call(func, p) == [func |-> func, path |-> p]
              expected ==
                  (IF notDir THEN <<Call("listdir", path)>> ELSE <<>>)
                  \o (IF stuck # {}
                      THEN <<Call("remove",
                                  join(path,
                                       split(CHOOSE q \in stuck : TRUE).tail))>>
                      ELSE <<>>)
                  \o (IF failure THEN <<Call("rmdir", path)>> ELSE <<>>)
          IN  /\ ignore_errors =>
                    lastOp'.exc = "none" /\ Onerrs(log') = <<>>
              /\ ~ignore_errors /\ onerror = "None" =>
                    /\ Onerrs(log') = <<>>
                    /\ lastOp'.exc =
                          IF failure THEN "PermanentError" ELSE "none"
              /\ ~ignore_errors /\ onerror # "None" =>
                    lastOp'.exc = "none" /\ Onerrs(log') = expected
              /\ lastOp'.exc = "none" /\ ~notDir =>
                    \A q \in DOMAIN fs :
                        (IsUnder(q, P) /\ q \notin stuck
                           /\ (q = P => stuck = {}))
                           => Kind(fs', q) = "none"]_vars

\* rmtree with ignore_errors true and onerror given has removed the file of
\* a directory and swallowed the errors about the file it could not remove
C21_Witness ==
    /\ lastOp.op = "rmtree"
    /\ lastOp.mode = RmtreeArgs(TRUE, "onerror")
    /\ lastOp.exc = "none"
    /\ lastOp.path = DirD
    /\ Kind(fs, FileDP) = "file"
    /\ FileDF \in gone


\* C22: walk(top, topdown), followed to its end, raises nothing and yields
\* exactly one triple for each directory that is top or lies below top, a
\* symbolic link being no directory: none for a link, and none twice, also
\* when links lead back into the tree.  A triple's subdirs and files divide
\* the names of its directory, a directory and a link to a directory being
\* among the subdirs and a file among the files.  No CWD is sent for a
\* link.  A directory's triple comes before those of the directories below
\* it when topdown is true and after them when it is false.
C22_Walk ==
    [][lastOp'.op = "walk" =>
          LET T == abspath(current_dir, lastOp'.path)
              topdown == lastOp'.mode = WalkArgs(TRUE)
              out == returned'
              At(i) == abspath(current_dir, out[i].top)
              reach == {q \in DOMAIN fs :
                           /\ Kind(fs, T) = "dir"
                           /\ Kind(fs, q) = "dir"
                           /\ IsUnder(q, T)}
          IN  /\ lastOp'.exc = "none"
              /\ {At(i) : i \in DOMAIN out} = reach
              /\ Len(out) = Cardinality(reach)
              /\ \A i \in DOMAIN out :
                    /\ out[i].dirs \cap out[i].nondirs = {}
                    /\ out[i].dirs \cup out[i].nondirs
                          = Names(Entries(fs, At(i)))
                    /\ \A q \in Entries(fs, At(i)) :
                          /\ Kind(fs, q) = "dir" => split(q).tail \in out[i].dirs
                          /\ Kind(fs, q) = "file" =>
                                split(q).tail \in out[i].nondirs
                          /\ (/\ Kind(fs, q) = "link"
                              /\ Kind(fs, Resolve(fs, q, MaxHops)) = "dir")
                                => split(q).tail \in out[i].dirs
              /\ \A i, j \in DOMAIN out :
                    (i # j /\ IsUnder(At(j), At(i))) =>
                        IF topdown THEN i < j ELSE j < i
              /\ \A k \in DOMAIN log' :
                    log'[k].cmd = "CWD" =>
                        Kind(fs, abspath(current_dir, log'[k].arg)) # "link"]_vars

\* a bottom-up walk from the root has yielded the four directories of a tree
\* in which the link /d/l leads back to /d, with l among the subdirs of /d
C22_Witness ==
    /\ lastOp.op = "walk"
    /\ lastOp.mode = WalkArgs(FALSE)
    /\ lastOp.path = Root
    /\ lastOp.exc = "none"
    /\ fs[LinkDL] = Link(Path(FALSE, <<".">>))
    /\ Len(returned) = 4
    /\ \E i \in DOMAIN returned :
          returned[i].top = DirD /\ Path(FALSE, <<"l">>) \in returned[i].dirs


\* the rule of the specification: add 30 minutes to |raw|, divide by 3600,
\* truncate, re-apply the sign
RoundToHours(raw) ==
    LET hours == (Abs(raw) + 1800) \div 3600
    IN  IF raw < 0 THEN 0 - hours * 3600 ELSE hours * 3600

\* the time the server's listing shows for a file written now, less the
\* client's time
RawShift ==
    ((now + server.skew) \div server.precision) * server.precision - now

\* synchronize_times has been called in the root directory, where the
\* helper file can be written, and no failure was injected
SyncUndisturbed ==
    /\ lastOp'.op = "synchronize_times"
    /\ lastOp'.mode = <<"none", "none">>
    /\ lastOp'.fail = "none"
    /\ current_dir = Root

\* C23: synchronize_times(), in a directory it can write the helper file in
\* and with every command working, succeeds if and only if
\* |round_to_hours(raw_shift)| <= 24 h and |raw_shift -
\* round_to_hours(raw_shift)| <= 5 min, raises TimeShiftError otherwise, and
\* on success time_shift() is round_to_hours(raw_shift), raw_shift being the
\* helper file's time in the listing less the client's time.  A server 4 h
\* ahead gives 14400, one 25 h ahead TimeShiftError.
C23_SynchronizeTimes ==
    [][SyncUndisturbed =>
          /\ lastOp'.exc \in {"none", "TimeShiftError"}
          /\ lastOp'.exc = "none" <=>
                /\ Abs(RoundToHours(RawShift)) <= 24 * 3600
                /\ Abs(RawShift - RoundToHours(RawShift)) <= 5 * 60
          /\ lastOp'.exc = "none" => time_shift' = RoundToHours(RawShift)
          /\ RawShift = 4 * 3600 =>
                lastOp'.exc = "none" /\ time_shift' = 14400
          /\ RawShift = 25 * 3600 => lastOp'.exc = "TimeShiftError"]_vars

\* the shift of a server that is 4 h 5 min behind has been measured
C23_Witness ==
    /\ lastOp.op = "synchronize_times"
    /\ lastOp.exc = "none"
    /\ server.skew = 0 - 4 * Hour - 5 * Minute
    /\ server.precision = 1
    /\ time_shift = 0 - 4 * Hour


\* 0, or full hours up to 24
RoundedShift(shift) ==
    shift = 0 \/ (shift % 3600 = 0 /\ Abs(shift) <= 24 * 3600)

\* C24 as claimed: in every reachable state time_shift() is 0 or a multiple
\* of 3600 seconds of absolute value at most 24*3600.
C24_AlwaysRounded == RoundedShift(time_shift)

\* C24, amended: time_shift() is 0 after construction; synchronize_times
\* either leaves it as it is or, returning normally, stores 0 or a multiple
\* of 3600 seconds of absolute value at most 24*3600; set_time_shift stores
\* its argument, whatever it is; no other operation changes it.
C24_StoredShift ==
    /\ [](lastOp.op = "init" => time_shift = 0)
    /\ [][/\ lastOp'.op = "synchronize_times" =>
                \/ time_shift' = time_shift
                \/ lastOp'.exc = "none" /\ RoundedShift(time_shift')
          /\ lastOp'.op = "set_time_shift" => time_shift' = lastOp'.mode[1]
          /\ lastOp'.op \notin {"synchronize_times", "set_time_shift"} =>
                time_shift' = time_shift]_vars

\* set_time_shift has stored half an hour on a handle whose server is four
\* hours ahead
C24_Witness ==
    /\ lastOp.op = "set_time_shift"
    /\ lastOp.exc = "none"
    /\ time_shift = 30 * Minute
    /\ server.skew = 4 * Hour

\* C25: whenever synchronize_times() fails it raises TimeShiftError and no
\* other kind of error, whatever failed: making the child session, opening
\* or closing the stream of the helper file, its stat, its unlink, or the
\* checks of the offset.
C25_OnlyTimeShiftError ==
    [][lastOp'.op = "synchronize_times" =>
          lastOp'.exc \in {"none", "TimeShiftError"}]_vars


\* the commands of the last call that open a stream or a session
Opening(l) ==
    {i \in 1..Len(l) : l[i].cmd \in {"STOR", "RETR", "TYPE", "CONNECT"}}

\* the time at which the server's listing shows the remote file, in the
\* client's time as the handle corrects it
CorrectedMtime == Listed(fs[FileF]).mtime - time_shift

\* the remote file is the newer one, the local file is the newer one
RemoteNewer == CorrectedMtime > local.mtime

LocalNewer == local.mtime > CorrectedMtime

\* the last call was one of the conditional transfers and returned
ConditionalDone(op) == lastOp'.op = op /\ lastOp'.exc = "none"

C27_EqualityTransfers ==
    [][/\ (/\ ConditionalDone("upload_if_newer")
           /\ Kind(fs, FileF) = "file"
           /\ local.mtime = CorrectedMtime)
          => returned' = TRUE
       /\ (/\ ConditionalDone("download_if_newer")
           /\ local.exists
           /\ local.mtime = CorrectedMtime)
          => returned' = TRUE]_vars

\* C28: an upload_if_newer that follows a completed upload of the same
\* file at once, the local file untouched in between and the time shift
\* equal to the difference of the clocks, returns False, whether the
\* server lists seconds or minutes.
C28_NoSecondUpload ==
    [][(/\ lastOp.op = "upload"
        /\ lastOp.exc = "none"
        /\ ConditionalDone("upload_if_newer")
        /\ time_shift = server.skew)
       => returned' = FALSE]_vars


\* the text has native line ends: no "\r" in it
NativeLineEnds(text) == \A i \in 1..Len(text) : text[i] # "\r"

\* C29: a text with native "\n" line ends that is written to a text
\* stream, by write or by writelines, and read back from the bytes sent
\* through a text stream comes back unchanged: read(write(s)) = s.
C29_TextRoundTrip ==
    (lastOp.op = "read" /\ NativeLineEnds(stream.text))
    => returned = stream.text

\* two lines have made the round trip, "\r\n" on the way
C29_Witness ==
    /\ lastOp.op = "read"
    /\ stream.text = <<"a", "\n", "a">>
    /\ returned = stream.text
    /\ stream.fo = <<>>

\* the bytes of raw other than "\r", in order
NoCR(raw) == SelectSeq(raw, LAMBDA b : b # "\r")

\* seq from its k-th element on
From(seq, k) == SubSeq(seq, k, Len(seq))

\* C30: in text mode read(n) returns min(n, number of bytes other than
\* "\r" left in the stream) bytes, the next bytes of the stream without
\* their "\r"; what it leaves in the stream is an end of what was there
\* and holds every byte other than "\r" it did not return; and the loop
\* ends after at most one _fo.read for each byte of the stream and two
\* more, the first and the one that finds the stream at its end.
C30_SizedRead ==
    [][lastOp'.op = "read" =>
          /\ Len(returned') = Min(lastOp'.mode[1], Len(NoCR(stream.fo)))
          /\ returned' = SubSeq(NoCR(stream.fo), 1, Len(returned'))
          /\ \E k \in 0..Len(stream.fo) : stream'.fo = From(stream.fo, k + 1)
          /\ NoCR(stream'.fo) = From(NoCR(stream.fo), Len(returned') + 1)
          /\ stream'.rounds <= Len(stream.fo) + 2]_vars

\* read(1) has gone on reading after a first byte that was a "\r", and
\* has left the rest of the stream
C30_Witness ==
    /\ lastOp.op = "read"
    /\ lastOp.mode = <<1>>
    /\ stream.rounds = 2
    /\ returned = <<"a">>
    /\ stream.got = <<"a">>
    /\ stream.fo = <<"a">>


\* every child of the pool and the host itself are closed
AllClosed ==
    /\ closed
    /\ session = "closed"
    /\ \A h \in DOMAIN hosts : hosts[h].closed /\ hosts[h].file_closed

\* C31: leaving `with host:` on an open host calls close() whether the
\* statements of the scope ended normally or raised: close() issues its
\* commands and the host is left as close() leaves it,
\* closed and without children unless close() itself failed; and an
\* exception raised in the scope is never swallowed: the statement raises
\* it, or the exception of close() when close() fails.
C31_ScopedClose ==
    [][lastOp'.op = "with" =>
          /\ ~closed => log' # <<>>
          /\ lastOp'.mode[2] = "none" /\ ~closed =>
                closed' /\ children' = <<>>
          /\ lastOp'.mode[2] = "none" => lastOp'.exc = lastOp'.mode[1]
          /\ lastOp'.mode[2] # "none" => lastOp'.exc = lastOp'.mode[2]
          /\ lastOp'.mode[1] # "none" => lastOp'.exc # "none"]_vars

\* a scope that raised has been left with a stream still open: the stream
\* and the host are closed and the exception has come out
C31_Witness ==
    /\ lastOp.op = "with"
    /\ lastOp.exc = "ValueError"
    /\ Len(hosts) = 2
    /\ AllClosed
    /\ \E i \in 1..Len(log) : log[i].cmd = "CLOSE" /\ log[i].sess = 2


\* the links on the server
Links == {p \in DOMAIN fs : Kind(fs, p) = "link"}

\* where n steps along the links from p lead: a path that is no link, or a
\* link still when the chain is longer than n
RECURSIVE Follow(_, _)
Follow(p, n) ==
    IF n = 0 \/ Kind(fs, p) # "link" THEN p
    ELSE Follow(normpath(join(split(p).head, fs[p].target)), n - 1)

\* where the chain of links from the path of the coming stat ends; the
\* chain that is still at a link after one step more than there are links
\* has come back to a path it has been at
ChainEnd == Follow(abspath(current_dir, lastOp'.path), Cardinality(Links) + 1)

\* C32: stat(P) ends for every link structure: it follows the links from P,
\* relative targets taken from the link's directory, to the first path that
\* is no link and returns that path's record, raises PermanentError when
\* nothing is there, and raises PermanentError when the chain of links
\* comes back to a path it has been at.
C32_StatFollowsLinks ==
    [][lastOp'.op = "stat" =>
          /\ Kind(fs, ChainEnd) \in {"file", "dir"} =>
                lastOp'.exc = "none" /\ returned' = Listed(fs[ChainEnd])
          /\ Kind(fs, ChainEnd) = "none" => lastOp'.exc = "PermanentError"
          /\ Kind(fs, ChainEnd) = "link" => lastOp'.exc = "PermanentError"]_vars

\* stat of /l has raised where /l and /d/l point at each other
C32_Witness ==
    /\ lastOp.op = "stat"
    /\ lastOp.path = LinkL
    /\ lastOp.exc = "PermanentError"
    /\ Kind(fs, LinkL) = "link" /\ fs[LinkL].target = Path(FALSE, <<"d", "l">>)
    /\ Kind(fs, LinkDL) = "link"
    /\ fs[LinkDL].target = Path(FALSE, <<"..", "l">>)


\* the commands of the last call on sessions that were there before it:
\* what it sent, the login of a new session and the cache's events left out
Sent(l) == SelectSeq(l, LAMBDA e : e.cmd \notin {"CONNECT", "invalidate"})

\* C33: a file(path, mode) that succeeds sends three commands, all on the
\* session of the child it chose: CWD to the directory part of the path
\* taken from the parent's getcwd(), TYPE A for text or TYPE I for binary,
\* and STOR for writing or RETR for reading with the basename alone; the
\* parent's session gets no command and the parent's getcwd() stays.
C33_FileCommands ==
    [][(lastOp'.op = "file" /\ lastOp'.exc = "none") =>
          /\ Sent(log') =
                <<Ev(lastOp'.child, "CWD",
                     split(EffectivePath(lastOp'.path)).head),
                  Ev(lastOp'.child, "TYPE",
                     Path(FALSE, <<IF HasChar(lastOp'.mode, "b") THEN "I"
                                   ELSE "A">>)),
                  Ev(lastOp'.child,
                     IF HasChar(lastOp'.mode, "w") THEN "STOR" ELSE "RETR",
                     split(EffectivePath(lastOp'.path)).tail)>>
          /\ \A i \in DOMAIN log' :
                log'[i].sess = 0 => log'[i].cmd = "invalidate"
          /\ lastOp'.child \in DOMAIN hosts'
          /\ current_dir' = current_dir
          /\ pwd' = pwd]_vars

\* file('f', 'wb') called in /d has sent CWD /d, TYPE I and STOR f on the
\* child's session
C33_Witness ==
    /\ lastOp.op = "file"
    /\ lastOp.exc = "none"
    /\ lastOp.path = RelF
    /\ lastOp.mode = <<"w", "b">>
    /\ current_dir = DirD
    /\ Sent(log) = <<Ev(lastOp.child, "CWD", DirD),
                     Ev(lastOp.child, "TYPE", Path(FALSE, <<"I">>)),
                     Ev(lastOp.child, "STOR", Path(FALSE, <<"f">>))>>


\* the last call was a file() that failed after it had chosen a child
FileFailed ==
    /\ lastOp.op = "file"
    /\ lastOp.exc # "none"
    /\ lastOp.child # 0

\* C34: a file() that fails for its mode, in the child's chdir, at TYPE or
\* at STOR/RETR leaves the stream of the child it chose closed and the child
\* in the pool, and a file() that comes next takes that same child and
\* makes no new session.
C34_FailedFileLeavesClosed ==
    /\ [](FileFailed =>
             /\ lastOp.child \in DOMAIN hosts
             /\ hosts[lastOp.child].file_closed
             /\ hosts[lastOp.child].inflight = 0
             /\ closed \/ AvailableChild(children, hosts) # 0)
    /\ [][(FileFailed /\ ~closed /\ lastOp'.op = "file") =>
             /\ lastOp'.child = AvailableChild(children, hosts)
             /\ ~lastOp'.spawned
             /\ Len(hosts') = Len(hosts)
             /\ \A i \in DOMAIN log' : log'[i].cmd # "CONNECT"]_vars

\* a file() has failed at STOR on a second child it had made while the
\* stream of the first was open: the second child is the one free
C34_Witness ==
    /\ FileFailed
    /\ lastOp.fail = "xfer"
    /\ lastOp.spawned
    /\ lastOp.child = 2
    /\ ~hosts[1].file_closed
    /\ AvailableChild(children, hosts) = 2


\* C35: once the host is closed no call on it logs a new session in or
\* adds a child to its pool.
C35_NothingAfterClose ==
    [][closed =>
          /\ \A i \in DOMAIN log' : log'[i].cmd # "CONNECT"
          /\ Len(hosts') = Len(hosts)
          /\ children' = children]_vars

\* C36: the stream of a child that has been handed to the caller and closed
\* stays closed, whatever is called on the host afterwards.
C36_ClosedStreamStaysClosed ==
    [][\A h \in DOMAIN hosts :
          (hosts[h].served /\ hosts[h].file_closed) =>
              hosts'[h].file_closed]_vars


TransferOps == {"upload", "download", "upload_if_newer", "download_if_newer"}

\* close() has been called on child h's stream in the last call
CloseCalled(l, h) == \E i \in DOMAIN l : l[i] = Ev(h, "FOCLOSE", EmptyPath)

C38_RenamedSourceGone ==
    [][(lastOp.op = "rename" /\ lastOp.exc = "none") =>
          /\ (lastOp'.op = "exists" /\ lastOp'.exc = "none"
                  /\ lastOp'.path = lastOp.path) => returned' = FALSE
          /\ (lastOp'.op = "lstat" /\ lastOp'.path # lastOp.path
                  /\ split(lastOp'.path).head = split(lastOp.path).head) =>
                (lastOp'.exc = "none"
                    /\ returned' = Listed(fs[lastOp'.path]))]_vars


\* C39: a synchronize_times() that raises, whatever failed (the helper file
\* could not be written, its stat or unlink failed, the offset measured is
\* implausible), leaves time_shift() as it was before the call; the value
\* changes only in a call that returns, the offset having passed both checks.
C39_FailedSyncKeepsShift ==
    [][lastOp'.op = "synchronize_times" =>
          /\ lastOp'.exc # "none" => time_shift' = time_shift
          /\ time_shift' # time_shift =>
                /\ lastOp'.exc = "none"
                /\ Abs(RoundToHours(RawShift)) <= 24 * 3600
                /\ Abs(RawShift - RoundToHours(RawShift)) <= 5 * 60]_vars

\* the half hour set_time_shift had stored is still there after a
\* synchronize_times in which every command worked and the offset of 25
\* hours was refused
C39_Witness ==
    /\ lastOp.op = "synchronize_times"
    /\ lastOp.exc = "TimeShiftError"
    /\ lastOp.mode = <<"none", "none">>
    /\ lastOp.fail = "none"
    /\ server.skew = 25 * Hour
    /\ time_shift = 30 * Minute

====
